---------------------------- MODULE Spec2Model ----------------------------
(***************************************************************************)
(* Model of the Kassutronics Quantizer firmware (ATmega328, 8-bit AVR).    *)
(*                                                                         *)
(* Three execution contexts are modelled:                                  *)
(*   - the sampling context, ISR(ADC_vect): it runs with interrupts        *)
(*     disabled, so one interrupt is one atomic action;                    *)
(*   - the housekeeping context, ISR(TIMER0_COMPA_vect): it re-enables     *)
(*     interrupts (sei) and is therefore preempted by the sampling         *)
(*     context between any two of its steps that are not enclosed in       *)
(*     cli()/sei();                                                        *)
(*   - the background context, loop(): it runs only while no interrupt     *)
(*     service routine is active.                                          *)
(*                                                                         *)
(* C integer types keep their width: byte is 8 bit unsigned, int is 16 bit *)
(* signed, unsigned int is 16 bit unsigned.                                *)
(***************************************************************************)
EXTENDS Integers, Sequences, FiniteSets, TLC

(***************************************************************************)
(* Integer helpers for the fixed-width C arithmetic.                       *)
(***************************************************************************)
Byte(x) == x % 256

Word(x) == x % 65536

\* (signed char) of a value: -128..127
SChar(x) == ((x + 128) % 256) - 128

\* (int) of a value: -32768..32767 (avr-gcc wraps 16 bit int arithmetic)
Int16(x) == ((x + 32768) % 65536) - 32768

\* x >> n on a signed int: arithmetic shift, rounds towards minus infinity
Shr(x, n) == x \div (2 ^ n)

\* C division of ints: truncates towards zero
CDiv(a, b) == IF a >= 0 THEN a \div b ELSE -((-a) \div b)

\* bit j of a 16 bit word counted from the most significant bit, the order in
\* which the code tests (x & 0x8000) after j left shifts; 0 once shifted out
Bit(s, j) == IF j \in 0..15 THEN (s \div (2 ^ (15 - j))) % 2 ELSE 0

\* the word with exactly the bits at the positions (from the msb) in P set
RECURSIVE WordOfBits(_)
WordOfBits(P) ==
    IF P = {} THEN 0
    ELSE LET j == CHOOSE x \in P : TRUE
         IN  2 ^ (15 - j) + WordOfBits(P \ {j})

Or16(a, b) == WordOfBits({j \in 0..15 : Bit(a, j) = 1 \/ Bit(b, j) = 1})

And16(a, b) == WordOfBits({j \in 0..15 : Bit(a, j) = 1 /\ Bit(b, j) = 1})

Xor16(a, b) == WordOfBits({j \in 0..15 : Bit(a, j) # Bit(b, j)})

(***************************************************************************)
(* Enumerations (Core.ino).  CV modes and quantization modes are numbers   *)
(* because the menu stores the key number itself: (CVMode)key, (QMode)key. *)
(***************************************************************************)
cvgatelength == 0
cvrotate == 1
cvtranspose == 2
cvtransposechannel == 3
cvoffset == 4
cvoffsetchannel == 5
cvload == 12
cvoff == 255
MAX_CV_MODE == 5

qmnearest == 0
qmskip == 1
qmequal == 2
MAX_Q_MODE == 2

KEY_GATELENGTH == 0
KEY_ROTATE == 1
KEY_TRANSPOSE == 2
KEY_TRANSPOSE_ONE == 3
KEY_OFFSET == 4
KEY_OFFSET_ONE == 5
KEY_KEYBOARD == 6
KEY_LEGATO == 7
KEY_QM == 8
KEY_TRIGGERDELAY == 9
KEY_CVA == 10
KEY_CVB == 11
KEY_LOAD == 12
KEY_SAVE == 12
KEY_UP == 13
KEY_DOWN == 14
KEY_HOME == 15
KEY_SHIFT == 15

(***************************************************************************)
(* System constants (Core.ino).  The three long timers are scaled down to  *)
(* the bounds below: their role in the code is only to be counted to.      *)
(***************************************************************************)
MaxAutosave == 3
MaxNest == 2
MaxEdges == 3
MaxTriggerAuto == 3

gatelengths == <<5, 50, 85, 144, 245, 416, 707, 1201, 2040, 3466, 5887, 10000>>
quartertone == 4
hysteresis == 1
gatedelay == 2
triggerdebounce == 6
triggerautotime == MaxTriggerAuto
triggerdelayscale == 5
autosavetime == MaxAutosave

DefaultScale == 44368   \* 0b1010110101010000

(***************************************************************************)
(* mod12 (Quantize.ino / hardware.h): value - mod12table[value >> 2].      *)
(* The table has 64 entries.  A read outside it is a read of whatever byte *)
(* lies next to the table: oob stands for that byte.                       *)
(***************************************************************************)
mod12table == [k \in 0..63 |-> IF k = 63 THEN 252 ELSE 12 * (k \div 3)]

Mod12Index(value) == Shr(value, 2)

InTable(value) == Mod12Index(value) \in 0..63

mod12(value, oob) ==
    IF InTable(value) THEN value - mod12table[Mod12Index(value)]
    ELSE value - oob

(***************************************************************************)
(* Quantize.ino                                                            *)
(***************************************************************************)
quantizeSemitones(adcval) == Byte(Shr(adcval + quartertone, 3))

\* note, r, scalenote as computed at the head of each scale quantizer
QNote(adcval) == Byte(Shr(adcval + quartertone, 3))

QRem(adcval) == adcval % 8

QScaleNote(adcval, oob) == Byte(mod12(QNote(adcval) + 8, oob))

\* the quantizer's table read is outside the table for this sample
QOutOfTable(adcval) == ~InTable(QNote(adcval) + 8)

\* mutant: the tie goes to the note above when the remainder is 4 or more
TieGoesUp_high(r) == r >= 4

\* (next == prev) && (r < 4): on a tie, note + next is returned
TieGoesUp(r) == r < 4

\* the search of quantizeNearest, after its test for an empty scale
NearestSearch(adcval, localscale0, oob) ==
    LET note == QNote(adcval)
        r == QRem(adcval)
        scalenote == QScaleNote(adcval, oob)
        \* enabled positions before the requested note: ll the first, lh the last
        below == {j \in 0..15 : j < scalenote /\ Bit(localscale0, j) = 1}
        ll == IF below = {} THEN 255
              ELSE CHOOSE j \in below : \A k \in below : j <= k
        lh == IF below = {} THEN 255
              ELSE CHOOSE j \in below : \A k \in below : j >= k
        current == Bit(localscale0, scalenote) = 1
        \* the third loop starts at the byte j = scalenote + 1 and runs while
        \* j < 12; index j looks at position scalenote + 1 + (j - j0)
        j0 == Byte(scalenote + 1)
        above == {j \in 0..11 : j >= j0
                     /\ Bit(localscale0, scalenote + 1 + (j - j0)) = 1}
        hl == IF above = {} THEN 255
              ELSE CHOOSE j \in above : \A k \in above : j <= k
        hh == IF above = {} THEN 255
              ELSE CHOOSE j \in above : \A k \in above : j >= k
        prev == IF lh = 255
                THEN (IF hh = 255 THEN 12 ELSE Byte(scalenote + 12 - hh))
                ELSE Byte(scalenote - lh)
        next == IF hl = 255
                THEN (IF ll = 255 THEN 12 ELSE Byte(12 + ll - scalenote))
                ELSE Byte(hl - scalenote)
    IN  IF current THEN note
        ELSE IF (next < prev) \/ ((next = prev) /\ TieGoesUp(r)) THEN Byte(note + next)
        ELSE Byte(note - prev)

\* mutant: the test for an empty scale is missing
quantizeNearest_noempty(adcval, localscale0, oob) ==
    NearestSearch(adcval, localscale0, oob)

quantizeNearest(adcval, localscale0, oob) ==
    IF localscale0 = 0 THEN 255 ELSE NearestSearch(adcval, localscale0, oob)

\* mutant: the scale position is the note itself modulo 12
quantizeSkip_nooffset(adcval, localscale0, oob) ==
    LET note == QNote(adcval)
        scalenote == Byte(mod12(note, oob))
    IN  IF localscale0 = 0 THEN 255
        ELSE IF Bit(localscale0, scalenote) = 1 THEN note
        ELSE 255

quantizeSkip(adcval, localscale0, oob) ==
    LET note == QNote(adcval)
        scalenote == QScaleNote(adcval, oob)
    IN  IF localscale0 = 0 THEN 255
        ELSE IF Bit(localscale0, scalenote) = 1 THEN note
        ELSE 255

\* the ascending list of enabled positions 0..11, as filled into notes[12]
EnabledNotes(localscale0) ==
    LET E == {j \in 0..11 : Bit(localscale0, j) = 1}
        F[k \in 0..12] ==
            IF k = 0 THEN << >>
            ELSE IF k - 1 \in E THEN Append(F[k - 1], k - 1) ELSE F[k - 1]
    IN  F[12]

quantizeEqual(adcval, localscale0, oob) ==
    LET note == QNote(adcval)
        r == QRem(adcval)
        scalenote == QScaleNote(adcval, oob)
        noteoffset == Byte(note - scalenote)
        notes == EnabledNotes(localscale0)
        numnotes == Len(notes)
        scalenotehighres == Byte(scalenote * 8 + r)
        x == Word(scalenotehighres * numnotes)
        index == Byte(x \div 96)
        \* notes[] has 12 entries, the unused ones 0; a read past it is a
        \* read of a neighbouring byte
        entry == IF index < numnotes THEN notes[index + 1]
                 ELSE IF index < 12 THEN 0
                 ELSE oob
    IN  IF localscale0 = 0 THEN 255
        ELSE Byte(noteoffset + entry)

(***************************************************************************)
(* Program state.                                                          *)
(***************************************************************************)
VARIABLES
    state,                  \* volatile PersistentState state
    rotatedscale, mode, keyboardoctaves, keyboardsemitones, keyboardtriggered,
    rotatesemitonesCV, transposesemitonesCV, offsetsemitonesCV,
    gatelength, cvgatelengthindex, cvgatelengthremainder,
    \* statics of processChannel, indexed by channel 0..1
    outval, lastgateoutval, gatecounter, freerunning, triggercounter, triggerdelay,
    \* history of each channel (observation only)
    chanhist,
    \* static of processCV, indexed by aux input 0..1
    CVquantized,
    \* hardware: gate pins, PWM compare registers, trigger pins, EIFR flags,
    \* the ADC interrupt's channel counter, the ADC multiplexer register and
    \* the input of the conversion in progress
    gate, dac, din, eifr, nextchannel, admux, convsrc,
    \* autosave and EEPROM
    autosavecounter, eebusy, eeState, eeScales,
    \* position and locals of the housekeeping interrupt and of loop()
    hk, bg,
    \* what the last step did (observation only, never read by the program)
    obs,
    \* inputs and results of a direct call of a pure function
    q

progVars == <<state, rotatedscale, mode, keyboardoctaves, keyboardsemitones,
              keyboardtriggered, rotatesemitonesCV, transposesemitonesCV,
              offsetsemitonesCV, gatelength, cvgatelengthindex,
              cvgatelengthremainder>>

chanVars == <<outval, lastgateoutval, gatecounter, freerunning, triggercounter,
              triggerdelay, chanhist>>

hwVars == <<gate, dac, din, eifr, nextchannel, admux, convsrc>>

eeVars == <<autosavecounter, eebusy, eeState, eeScales>>

vars == <<progVars, chanVars, CVquantized, hwVars, eeVars, hk, bg, obs, q>>

(***************************************************************************)
(* Core.ino: updateRotation, updateGatelength                              *)
(***************************************************************************)
\* An outcome of undefined behaviour: the byte found by a read outside an
\* array (oob; rotoob for the read made by updateRotation) and the word left
\* by a shift whose count is out of range (word).
NoUndef == [oob |-> 0, rotoob |-> 0, word |-> 0]

\* byte rotation = mod12(state.rotatesemitones + rotatesemitonesCV)
Rotation(rs, rcv, u) == Byte(mod12(rs + rcv, u.rotoob))

\* mutant: a rotation of the whole 16 bit word instead of its top 12 bits
RotateScale_word(myscale, rotation, u) ==
    IF rotation = 0 THEN myscale
    ELSE Or16(myscale \div (2 ^ rotation), Word(myscale * (2 ^ (16 - rotation))))

\* ((myscale >> rotation) | (myscale << (12 - rotation))) & 0xFFF0
RotateScale(myscale, rotation, u) ==
    IF rotation = 0 THEN myscale
    ELSE IF rotation <= 12
         THEN And16(Or16(myscale \div (2 ^ rotation),
                         Word(myscale * (2 ^ (12 - rotation)))), 65520)
         ELSE u.word

\* the value updateRotation() assigns to rotatedscale
UpdateRotationValue(st, rcv, u) ==
    RotateScale(st.scale, Rotation(st.rotatesemitones, rcv, u), u)

\* updateRotation() shifts by a count the C language defines
RotationDefined(st, rcv) ==
    /\ InTable(st.rotatesemitones + rcv)
    /\ Rotation(st.rotatesemitones, rcv, NoUndef) <= 12

intmap(x, in_min, in_max, out_min, out_max) ==
    Int16(CDiv(Int16((x - in_min) * (out_max - out_min)), in_max - in_min) + out_min)

\* the value updateGatelength() assigns to gatelength
UpdateGatelengthValue(gatelengthindex, cvindex, cvremainder) ==
    LET i == gatelengthindex + cvindex
    IN  IF i < 0 THEN gatelengths[1]
        ELSE IF i > 10 THEN gatelengths[12]
        ELSE Int16(gatelengths[i + 1]
                   + intmap(cvremainder, 0, 39, 0, gatelengths[i + 2] - gatelengths[i + 1]))

(***************************************************************************)
(* State after setup(): defaults of Core.ino, then loadPersistentState().  *)
(***************************************************************************)
DefaultState ==
    [scale |-> DefaultScale, gatelengthindex |-> 0, rotatesemitones |-> 0,
     transposesemitones |-> 0, transposeBsemitones |-> 0,
     offsetsemitones |-> 0, offsetBsemitones |-> 0, gatelegato |-> FALSE,
     qmode |-> qmnearest, triggerdelay |-> 0, cvmode |-> [i \in 0..1 |-> cvoff]]

\* the housekeeping interrupt: its position, the locals of keyDownEvent,
\* loadScale, saveScale and updateRotation, and the number of key presses
\* still to come; the timer's interrupt enable bit (TIMSK0.OCIE0A) and
\* compare flag (TIFR0.OCF0A), the global interrupt flag as the timer
\* interrupt leaves it, the activations of the timer interrupt routine on
\* the stack and the calls of processIO in progress
HkIdle == [pc |-> "idle", key |-> 0, tmp |-> 0, rotation |-> 0, tscale |-> 0,
           left |-> 0, ocie |-> TRUE, ocf |-> FALSE, iflag |-> TRUE,
           frames |-> 0, ios |-> 0]

\* per channel, for the run of accepted triggers that resolved to the present
\* output value: the triggers in it (2: two or more), the times the gate was
\* turned on since it began (2: two or more), and whether the gate was turned
\* on while the run had one trigger; and the samples taken in triggered mode
\* since the channel entered it or last found an edge; the samples taken
\* since the last accepted candidate (since, counted up to SinceCap); the
\* samples taken since an edge was accepted as a trigger, while it is pending
\* and no further edge was found (pend, -1: none); and the level changes of
\* the trigger pin that were counted (observation only)
SinceCap == gatedelay + gatelengths[1]

NoRun == [trigs |-> 0, gates |-> 0, between |-> FALSE, quiet |-> 0,
          since |-> SinceCap, pend |-> 0 - 1, edges |-> 0]

\* quiet samples are counted up to here
QuietCap == triggerautotime + triggerdebounce + 3

ObsNone == [kind |-> "none", ch |-> 0, quant |-> 0, candidate |-> 0,
            trig |-> FALSE, gateon |-> FALSE, gateoff |-> FALSE, edge |-> FALSE,
            level |-> FALSE]

QNone == [phase |-> "none", adc |-> 0, oob |-> 0, s0 |-> 0, r |-> 0,
          nearest |-> 0, skip |-> 0, equal |-> 0]

\* the state in which the interrupts are first enabled, for the stored
\* configuration st, the stored scale banks and the levels of the two
\* trigger inputs; presses is the number of key presses of the run
Boot(st, banks, pins, presses) ==
    /\ state = st
    /\ rotatedscale = UpdateRotationValue(st, 0, NoUndef)
    /\ mode = "normal"
    /\ keyboardoctaves = 0
    /\ keyboardsemitones = 0
    /\ keyboardtriggered = 0
    /\ rotatesemitonesCV = 0
    /\ transposesemitonesCV = [i \in 0..1 |-> 0]
    /\ offsetsemitonesCV = [i \in 0..1 |-> 0]
    /\ cvgatelengthindex = 0
    /\ cvgatelengthremainder = 0
    /\ gatelength = UpdateGatelengthValue(st.gatelengthindex, 0, 0)
    /\ outval = [i \in 0..1 |-> 0]
    /\ lastgateoutval = [i \in 0..1 |-> 0]
    /\ gatecounter = [i \in 0..1 |-> 0]
    /\ freerunning = [i \in 0..1 |-> TRUE]
    /\ triggercounter = [i \in 0..1 |-> 0]
    /\ triggerdelay = [i \in 0..1 |-> 0]
    /\ CVquantized = [i \in 0..1 |-> 0]
    /\ gate = [i \in 0..1 |-> FALSE]
    /\ dac = [i \in 0..1 |-> 0]
    /\ din = pins
    /\ eifr = [i \in 0..1 |-> FALSE]
    /\ nextchannel = 0
    /\ admux = 1
    /\ convsrc = 1
    /\ autosavecounter = 0
    /\ eebusy = FALSE
    /\ eeState = st
    /\ eeScales = banks
    /\ hk = [HkIdle EXCEPT !.left = presses]
    /\ chanhist = [i \in 0..1 |-> NoRun]
    /\ bg = "loop"
    /\ obs = ObsNone

EmptyBanks == [k \in 0..11 |-> 0]

\* no cable in the trigger inputs; a cable that holds both of them high
PinsLow == [i \in 0..1 |-> FALSE]

PinsHigh == [i \in 0..1 |-> TRUE]

(***************************************************************************)
(* Core.ino: processChannel(i, newadcval), one call per sample of channel  *)
(* i.  The pieces are operators; ProcessChannelResult puts them together   *)
(* in the order of the code.                                               *)
(***************************************************************************)
\* add or subtract hysteresis (free running mode only)
Hysteresis(fr, newadcval, oldval) ==
    IF fr /\ newadcval > oldval THEN newadcval - hysteresis
    ELSE IF fr /\ newadcval < oldval THEN newadcval + (hysteresis - 1)
    ELSE newadcval

\* candidate = 63 + (byte)keyboardsemitones + (byte)(12*keyboardoctaves)
KeyboardCandidate(semitones, octaves) ==
    Byte(63 + Byte(semitones) + Byte(12 * octaves))

\* newvalhystoffset: the sample plus the global, aux and channel B offsets
OffsetSample(i, newvalhyst, st, offCV) ==
    LET a == Int16(newvalhyst + (st.offsetsemitones + offCV[i]) * 8)
    IN  IF i = 1 THEN Int16(a + st.offsetBsemitones * 8) ELSE a

\* the configured quantizer
Quantize(qmode, adcval, scale, oob) ==
    IF qmode = qmnearest THEN quantizeNearest(adcval, scale, oob)
    ELSE IF qmode = qmskip THEN quantizeSkip(adcval, scale, oob)
    ELSE quantizeEqual(adcval, scale, oob)

\* candidate += transposesemitones + transposesemitonesCV[i] - 1, and for
\* channel B candidate += transposeBsemitones (byte arithmetic)
Transposed(i, quant, st, trCV) ==
    LET a == Byte(quant + st.transposesemitones + trCV[i] - 1)
    IN  IF i = 1 THEN Byte(a + st.transposeBsemitones) ELSE a

\* mutant: a candidate that differs from outval is accepted in either mode
TrigDue_anymode(candidate, fr, out, td) ==
    candidate < 128 /\ (candidate # out \/ td = 1)

\* trig, outside keyboard mode
TrigDue(candidate, fr, out, td) ==
    candidate < 128 /\ ((fr /\ candidate # out) \/ td = 1)

\* mutant: the gate is turned on one sample later
GateOnDue_late(gc, out, lastgate) == gc = 1 /\ out # lastgate

\* mutant: the gate is turned on whenever the settling delay has elapsed
GateOnDue_always(gc, out, lastgate) == gc = 0

\* the gate is turned on
GateOnDue(gc, out, lastgate) == gc = 0 /\ out # lastgate

\* mutant: an accepted edge fires on the next sample whatever the setting
ArmedDelay_next(cfgdelay) == 1

\* triggerdelay[i] = (1 + triggerdelayscale*state.triggerdelay)
ArmedDelay(cfgdelay) == Byte(1 + triggerdelayscale * cfgdelay)

\* mutant: the timeout runs at either level of the pin
TriggerStep_anylevel(fr, tc, td, level, flag, cfgdelay) ==
    IF fr
    THEN IF level
         THEN [fr |-> FALSE, tc |-> 0, td |-> td, flag |-> flag, edge |-> FALSE]
         ELSE [fr |-> TRUE, tc |-> tc, td |-> td, flag |-> flag, edge |-> FALSE]
    ELSE IF flag
         THEN [fr |-> FALSE, tc |-> 0 - triggerdebounce,
               td |-> IF tc >= 0 THEN ArmedDelay(cfgdelay) ELSE td,
               flag |-> FALSE, edge |-> tc >= 0]
         ELSE LET td1 == IF td > 1 THEN td - 1 ELSE td
              IN  IF tc <= triggerautotime
                  THEN [fr |-> FALSE, tc |-> tc + 1, td |-> td1,
                        flag |-> FALSE, edge |-> FALSE]
                  ELSE [fr |-> TRUE, tc |-> tc, td |-> td1,
                        flag |-> FALSE, edge |-> FALSE]

\* "Check trigger and mode": the new freerunning, triggercounter,
\* triggerdelay and EIFR flag of a channel, from the pin level and the flag
TriggerStep(fr, tc, td, level, flag, cfgdelay) ==
    IF fr
    THEN IF level
         THEN [fr |-> FALSE, tc |-> 0, td |-> td, flag |-> flag, edge |-> FALSE]
         ELSE [fr |-> TRUE, tc |-> tc, td |-> td, flag |-> flag, edge |-> FALSE]
    ELSE IF flag
         THEN [fr |-> FALSE, tc |-> 0 - triggerdebounce,
               td |-> IF tc >= 0 THEN ArmedDelay(cfgdelay) ELSE td,
               flag |-> FALSE, edge |-> tc >= 0]
         ELSE LET td1 == IF td > 1 THEN td - 1 ELSE td
              IN  IF ~level
                  THEN IF tc <= triggerautotime
                       THEN [fr |-> FALSE, tc |-> tc + 1, td |-> td1,
                             flag |-> FALSE, edge |-> FALSE]
                       ELSE [fr |-> TRUE, tc |-> tc, td |-> td1,
                             flag |-> FALSE, edge |-> FALSE]
                  ELSE [fr |-> FALSE, tc |-> IF tc < 0 THEN tc + 1 ELSE tc,
                        td |-> td1, flag |-> FALSE, edge |-> FALSE]

ProcessChannelResult(i, newadcval, u) ==
    LET oldval == outval[i] * 8
        newvalhyst == Hysteresis(freerunning[i], newadcval, oldval)
        kb == mode = "keyboard"
        adcq == OffsetSample(i, newvalhyst, state, offsetsemitonesCV)
        quant == Quantize(state.qmode, adcq, rotatedscale, u.oob)
        candidate == IF kb THEN KeyboardCandidate(keyboardsemitones, keyboardoctaves)
                     ELSE Transposed(i, quant, state, transposesemitonesCV)
        trig == IF kb THEN keyboardtriggered > 0
                ELSE TrigDue(candidate, freerunning[i], outval[i], triggerdelay[i])
        \* else if (triggerdelay[i] == 1) triggerdelay[i] = 0
        td1 == IF ~kb /\ candidate >= 128 /\ triggerdelay[i] = 1 THEN 0
               ELSE triggerdelay[i]
        out1 == IF trig THEN candidate ELSE outval[i]
        gc1 == IF trig THEN 0 - gatedelay ELSE gatecounter[i]
        td2 == IF trig THEN 0 ELSE td1
        gate1 == IF trig /\ ~state.gatelegato THEN FALSE ELSE gate[i]
        gateon == GateOnDue(gc1, out1, lastgateoutval[i])
        gateoff == gc1 = gatelength
        gate2 == IF gateoff THEN FALSE ELSE IF gateon THEN TRUE ELSE gate1
        gc2 == IF gc1 <= gatelength THEN gc1 + 1 ELSE gc1
        t == TriggerStep(freerunning[i], triggercounter[i], td2, din[i], eifr[i],
                         state.triggerdelay)
        h0 == chanhist[i]
        h1 == IF ~trig THEN h0
              ELSE IF out1 # outval[i] \/ h0.trigs = 0
                   THEN [h0 EXCEPT !.trigs = 1, !.gates = 0, !.between = FALSE]
                   ELSE [h0 EXCEPT !.trigs = 2]
        h2 == IF ~gateon THEN h1
              ELSE [h1 EXCEPT !.gates = IF @ < 2 THEN @ + 1 ELSE @,
                              !.between = @ \/ h1.trigs = 1]
        h3 == [h2 EXCEPT !.quiet = IF t.fr \/ freerunning[i] \/ eifr[i] THEN 0
                                   ELSE IF @ < QuietCap THEN @ + 1 ELSE @]
        h4 == [h3 EXCEPT !.since = IF trig THEN 0
                                   ELSE IF @ < SinceCap THEN @ + 1 ELSE @]
        h5 == [h4 EXCEPT !.pend = IF t.edge THEN 0
                                  ELSE IF @ < 0 \/ trig \/ t.fr \/ eifr[i]
                                          \/ @ >= triggerdelayscale * state.triggerdelay
                                       THEN 0 - 1
                                       ELSE @ + 1]
    IN  [outval |-> out1,
         chanhist |-> h5,
         dac |-> IF trig THEN out1 ELSE dac[i],
         lastgateoutval |-> IF gateon THEN out1 ELSE lastgateoutval[i],
         gatecounter |-> gc2,
         gate |-> gate2,
         keyboardtriggered |-> IF trig THEN Byte(keyboardtriggered - 1)
                               ELSE keyboardtriggered,
         freerunning |-> t.fr, triggercounter |-> t.tc, triggerdelay |-> t.td,
         eifr |-> t.flag,
         obs |-> [kind |-> IF kb THEN "keyboard" ELSE "channel", ch |-> i,
                  quant |-> IF kb THEN 0 ELSE quant, candidate |-> candidate,
                  trig |-> trig, gateon |-> gateon,
                  gateoff |-> gateoff \/ (trig /\ ~state.gatelegato),
                  edge |-> t.edge, level |-> din[i]]]

\* the quantizer called by processChannel reads outside mod12table
ChannelOutOfTable(i, newadcval) ==
    /\ mode # "keyboard"
    /\ QOutOfTable(OffsetSample(i, Hysteresis(freerunning[i], newadcval, outval[i] * 8),
                                state, offsetsemitonesCV))

ProcessChannel(i, newadcval) ==
    \E o \in (IF ChannelOutOfTable(i, newadcval) THEN 0..255 ELSE {0}) :
        \E R \in {ProcessChannelResult(i, newadcval, [NoUndef EXCEPT !.oob = o])} :
            /\ outval' = [outval EXCEPT ![i] = R.outval]
            /\ dac' = [dac EXCEPT ![i] = R.dac]
            /\ lastgateoutval' = [lastgateoutval EXCEPT ![i] = R.lastgateoutval]
            /\ gatecounter' = [gatecounter EXCEPT ![i] = R.gatecounter]
            /\ chanhist' = [chanhist EXCEPT ![i] = R.chanhist]
            /\ gate' = [gate EXCEPT ![i] = R.gate]
            /\ keyboardtriggered' = R.keyboardtriggered
            /\ freerunning' = [freerunning EXCEPT ![i] = R.freerunning]
            /\ triggercounter' = [triggercounter EXCEPT ![i] = R.triggercounter]
            /\ triggerdelay' = [triggerdelay EXCEPT ![i] = R.triggerdelay]
            /\ eifr' = [eifr EXCEPT ![i] = R.eifr]
            /\ obs' = R.obs
            /\ UNCHANGED <<state, rotatedscale, mode, keyboardoctaves,
                           keyboardsemitones, rotatesemitonesCV,
                           transposesemitonesCV, offsetsemitonesCV, gatelength,
                           cvgatelengthindex, cvgatelengthremainder, CVquantized>>

(***************************************************************************)
(* The outcomes of the undefined behaviour of one call of updateRotation() *)
(* on configuration st and aux rotation rcv, the caller's own read outside *)
(* the table having found the byte o.                                      *)
(***************************************************************************)
UndefRot(st, rcv, o) ==
    UNION { { [oob |-> o, rotoob |-> r, word |-> w] :
                w \in (IF Rotation(st.rotatesemitones, rcv, [NoUndef EXCEPT !.rotoob = r]) > 12
                       THEN 0..65535 ELSE {0}) } :
            r \in (IF InTable(st.rotatesemitones + rcv) THEN {0} ELSE 0..255) }

(***************************************************************************)
(* SaveRecall.ino: loadScale(index), as the configuration it leaves.       *)
(***************************************************************************)
\* mutant: the base rotation is kept
LoadScaleState_keeprotation(st, banks, index) ==
    IF index < 12 THEN [st EXCEPT !.scale = banks[index]] ELSE st

LoadScaleState(st, banks, index) ==
    IF index < 12 THEN [st EXCEPT !.scale = banks[index], !.rotatesemitones = 0]
    ELSE st

(***************************************************************************)
(* Core.ino: processCV(i, newadcval), one call per sample of aux input i.  *)
(***************************************************************************)
\* the quantized aux value: quantizeSemitones(newvalhyst) - 1, as a byte
CVCandidate(i, newadcval) ==
    Byte(quantizeSemitones(Hysteresis(TRUE, newadcval, CVquantized[i] * 8)) - 1)

\* mutant: the zero point of the index is 12 steps
CVGateIndex_zero12(newadcval) == CDiv(newadcval + 8, 40) - 12

\* gate length mode: index and remainder from one division
CVGateIndex(newadcval) == CDiv(newadcval + 8, 40) - 13

CVGateRemainder(newadcval) == (newadcval + 8) - CDiv(newadcval + 8, 40) * 40

\* the overlay value of the transpose and offset effects
CVOverlay(quantized) == SChar(quantized - 63)

\* the aux rotation and the bank index of the rotate and scale recall effects
CVMod12(quantized, oob) == Byte(mod12(quantized - 3, oob))

\* mutant: the effect of the mode is applied on every sample
CVTrig_always(candidate, quantized) == TRUE

\* boolean trig = (candidate != CVquantized[i])
CVTrig(candidate, quantized) == candidate # quantized

ProcessCVResult(i, newadcval, u) ==
    LET cm == state.cvmode[i]
        candidate == CVCandidate(i, newadcval)
        trig == CVTrig(candidate, CVquantized[i])
        fire(m) == cm # cvgatelength /\ trig /\ cm = m
        st1 == IF fire(cvload)
               THEN LoadScaleState(state, eeScales, CVMod12(candidate, u.oob))
               ELSE state
        rcv1 == IF fire(cvrotate) THEN CVMod12(candidate, u.oob) ELSE rotatesemitonesCV
        rotated == fire(cvrotate) \/ (fire(cvload) /\ CVMod12(candidate, u.oob) < 12)
        gli == IF cm = cvgatelength THEN CVGateIndex(newadcval) ELSE cvgatelengthindex
        glr == IF cm = cvgatelength THEN CVGateRemainder(newadcval)
               ELSE cvgatelengthremainder
    IN  [CVquantized |-> IF cm = cvgatelength THEN CVquantized[i] ELSE candidate,
         state |-> st1,
         rotatesemitonesCV |-> rcv1,
         rotatedscale |-> IF rotated THEN UpdateRotationValue(st1, rcv1, u)
                          ELSE rotatedscale,
         transposesemitonesCV |->
             IF fire(cvtranspose) THEN [c \in 0..1 |-> CVOverlay(candidate)]
             ELSE IF fire(cvtransposechannel)
                  THEN [transposesemitonesCV EXCEPT ![i] = CVOverlay(candidate)]
                  ELSE transposesemitonesCV,
         offsetsemitonesCV |->
             IF fire(cvoffset) THEN [c \in 0..1 |-> CVOverlay(candidate)]
             ELSE IF fire(cvoffsetchannel)
                  THEN [offsetsemitonesCV EXCEPT ![i] = CVOverlay(candidate)]
                  ELSE offsetsemitonesCV,
         cvgatelengthindex |-> gli,
         cvgatelengthremainder |-> glr,
         gatelength |-> IF cm = cvgatelength
                        THEN UpdateGatelengthValue(state.gatelengthindex, gli, glr)
                        ELSE gatelength,
         obs |-> [ObsNone EXCEPT !.kind = "cv", !.ch = i, !.candidate = candidate,
                                 !.trig = cm # cvgatelength /\ trig]]

\* the outcomes of the undefined behaviour of one call of processCV
UndefCV(i, newadcval) ==
    LET cm == state.cvmode[i]
        candidate == CVCandidate(i, newadcval)
        fires == cm \in {cvrotate, cvload} /\ CVTrig(candidate, CVquantized[i])
        O == IF fires /\ ~InTable(candidate - 3) THEN 0..255 ELSE {0}
    IN  UNION { IF ~fires THEN {NoUndef}
                ELSE IF cm = cvrotate
                     THEN UndefRot(state, CVMod12(candidate, o), o)
                     ELSE IF CVMod12(candidate, o) < 12
                          THEN UndefRot(LoadScaleState(state, eeScales, 0),
                                        rotatesemitonesCV, o)
                          ELSE {[NoUndef EXCEPT !.oob = o]} : o \in O }

ProcessCV(i, newadcval) ==
    \E u \in UndefCV(i, newadcval) :
        \E R \in {ProcessCVResult(i, newadcval, u)} :
            /\ CVquantized' = [CVquantized EXCEPT ![i] = R.CVquantized]
            /\ state' = R.state
            /\ rotatesemitonesCV' = R.rotatesemitonesCV
            /\ rotatedscale' = R.rotatedscale
            /\ transposesemitonesCV' = R.transposesemitonesCV
            /\ offsetsemitonesCV' = R.offsetsemitonesCV
            /\ cvgatelengthindex' = R.cvgatelengthindex
            /\ cvgatelengthremainder' = R.cvgatelengthremainder
            /\ gatelength' = R.gatelength
            /\ obs' = R.obs
            /\ UNCHANGED <<mode, keyboardoctaves, keyboardsemitones,
                           keyboardtriggered, chanVars, gate, dac, eifr>>

(***************************************************************************)
(* Hardware.ino: ISR(ADC_vect).  A conversion has completed; the next one  *)
(* has already started on the input ADMUX selected before this interrupt.  *)
(* In[src] is the set of values input src (0: channel A, 1: aux A,         *)
(* 2: channel B, 3: aux B) can convert to.  Interrupts are disabled while  *)
(* the routine runs, so it is one step.                                    *)
(***************************************************************************)
ReadChannel(nc) == (nc + 2) % 4     \* nextchannel ^ 0b10

ADCInterrupt(In) ==
    LET nc == (nextchannel + 1) % 4
        readchannel == ReadChannel(nc)
    IN  \E val \in In[convsrc] :
            /\ nextchannel' = nc
            /\ admux' = nc
            /\ convsrc' = admux
            /\ IF readchannel % 2 = 1
               THEN ProcessCV(readchannel \div 2, val)
               ELSE ProcessChannel(readchannel \div 2, val)
            /\ UNCHANGED <<din, eeVars, hk, bg, q>>

\* the trigger input of channel i changes level; the external interrupt
\* hardware latches a falling edge in EIFR (EICRA: ISC01 = 1, ISC00 = 0)
PinChange(i) ==
    /\ din' = [din EXCEPT ![i] = ~din[i]]
    /\ eifr' = [eifr EXCEPT ![i] = eifr[i] \/ din[i]]
    /\ UNCHANGED <<progVars, chanVars, CVquantized, gate, dac, nextchannel, admux,
                   convsrc, eeVars, hk, bg, obs, q>>

\* the same, for a trigger signal that changes level MaxEdges times at most
PinChangeCounted(i) ==
    /\ chanhist[i].edges < MaxEdges
    /\ din' = [din EXCEPT ![i] = ~din[i]]
    /\ eifr' = [eifr EXCEPT ![i] = eifr[i] \/ din[i]]
    /\ chanhist' = [chanhist EXCEPT ![i].edges = @ + 1]
    /\ UNCHANGED <<progVars, outval, lastgateoutval, gatecounter, freerunning,
                   triggercounter, triggerdelay, CVquantized, gate, dac,
                   nextchannel, admux, convsrc, eeVars, hk, bg, obs, q>>

(***************************************************************************)
(* Hardware.ino: ISR(TIMER0_COMPA_vect) -> processIO() -> getDisplayState, *)
(* keyDownEvent (Core.ino).  The routine runs with interrupts enabled: the *)
(* ADC interrupt can run between any two steps below; statements between   *)
(* cli() and sei() are one step.  The first step of each handler is the    *)
(* timer interrupt itself, with one key edge found by processIO.  loop()   *)
(* does not run while hk.pc # "idle".                                      *)
(***************************************************************************)
MaxKeys == 3

kbVars == <<keyboardoctaves, keyboardsemitones, keyboardtriggered>>

overlayVars == <<transposesemitonesCV, offsetsemitonesCV>>

glVars == <<gatelength, cvgatelengthindex, cvgatelengthremainder>>

\* what the housekeeping and background contexts never write
samplingVars == <<chanVars, CVquantized, hwVars, q>>

\* getDisplayState: if (autosavecounter > 1) autosavecounter--
Countdown(c) == IF c > 1 THEN c - 1 ELSE c

\* a timer interrupt that finds key edge k
Press(k) == hk.pc = "idle" /\ hk.left > 0

Pressed(pc, k) == [hk EXCEPT !.pc = pc, !.key = k, !.left = hk.left - 1]

\* a timer interrupt without a key edge
HKTick ==
    /\ hk.pc = "idle"
    /\ autosavecounter' = Countdown(autosavecounter)
    /\ UNCHANGED <<progVars, samplingVars, obs, eebusy, eeState, eeScales, hk, bg>>

\* ---- normal mode, shift not held ----

\* key < 12: byte rotation = state.rotatesemitones + rotatesemitonesCV,
\* the two volatile reads
KeyToggleRead1(k) ==
    /\ Press(k) /\ mode = "normal" /\ k < 12
    /\ hk' = [Pressed("toggle_read2", k) EXCEPT !.rotation = Byte(state.rotatesemitones)]
    /\ autosavecounter' = Countdown(autosavecounter)
    /\ UNCHANGED <<progVars, samplingVars, obs, eebusy, eeState, eeScales, bg>>

KeyToggleRead2 ==
    /\ hk.pc = "toggle_read2"
    /\ hk' = [hk EXCEPT !.pc = "toggle_commit",
                        !.rotation = Byte(hk.rotation + rotatesemitonesCV)]
    /\ UNCHANGED <<progVars, samplingVars, obs, eeVars, bg>>

\* unrotatedkey = mod12(key + 24 - rotation)
UnrotatedKey(key, rotation, oob) == Byte(mod12(key + 24 - rotation, oob))

\* 0x8000 >> unrotatedkey
KeyMask(unrotatedkey, u) ==
    IF unrotatedkey <= 15 THEN 2 ^ (15 - unrotatedkey) ELSE u.word

\* cli(); state.scale ^= (0x8000 >> unrotatedkey); updateRotation(); sei();
\* autosavecounter = autosavetime
KeyToggleCommit ==
    /\ hk.pc = "toggle_commit"
    /\ \E o \in (IF InTable(hk.key + 24 - hk.rotation) THEN {0} ELSE 0..255) :
       \E w \in (IF UnrotatedKey(hk.key, hk.rotation, o) <= 15 THEN {0} ELSE 0..65535) :
          LET st1 == [state EXCEPT !.scale =
                         Xor16(state.scale,
                               KeyMask(UnrotatedKey(hk.key, hk.rotation, o),
                                       [NoUndef EXCEPT !.word = w]))]
          IN  /\ state' = st1
              /\ \E u \in UndefRot(st1, rotatesemitonesCV, 0) :
                     rotatedscale' = UpdateRotationValue(st1, rotatesemitonesCV, u)
    /\ autosavecounter' = autosavetime
    /\ hk' = [hk EXCEPT !.pc = "idle"]
    /\ UNCHANGED <<mode, kbVars, rotatesemitonesCV, overlayVars, glVars,
                   samplingVars, obs, eebusy, eeState, eeScales, bg>>

\* key == KEY_LOAD: mode = load
KeyLoadMenu ==
    /\ Press(KEY_LOAD) /\ mode = "normal"
    /\ mode' = "load"
    /\ hk' = Pressed("idle", KEY_LOAD)
    /\ autosavecounter' = Countdown(autosavecounter)
    /\ UNCHANGED <<state, rotatedscale, kbVars, rotatesemitonesCV, overlayVars,
                   glVars, samplingVars, obs, eebusy, eeState, eeScales, bg>>

\* key == KEY_UP: state.rotatesemitones++ is a read and a write
KeyUpRead ==
    /\ Press(KEY_UP) /\ mode = "normal"
    /\ hk' = [Pressed("up_write", KEY_UP) EXCEPT !.tmp = state.rotatesemitones]
    /\ autosavecounter' = Countdown(autosavecounter)
    /\ UNCHANGED <<progVars, samplingVars, obs, eebusy, eeState, eeScales, bg>>

KeyUpWrite ==
    /\ hk.pc = "up_write"
    /\ state' = [state EXCEPT !.rotatesemitones = SChar(hk.tmp + 1)]
    /\ hk' = [hk EXCEPT !.pc = "up_wrap"]
    /\ UNCHANGED <<rotatedscale, mode, kbVars, rotatesemitonesCV, overlayVars,
                   glVars, samplingVars, obs, eeVars, bg>>

\* if (state.rotatesemitones == 12) state.rotatesemitones = 0
KeyUpWrap ==
    /\ hk.pc = "up_wrap"
    /\ state' = [state EXCEPT !.rotatesemitones =
                     IF state.rotatesemitones = 12 THEN 0 ELSE state.rotatesemitones]
    /\ hk' = [hk EXCEPT !.pc = "rotate_commit"]
    /\ UNCHANGED <<rotatedscale, mode, kbVars, rotatesemitonesCV, overlayVars,
                   glVars, samplingVars, obs, eeVars, bg>>

\* key == KEY_DOWN: if (state.rotatesemitones == 0) state.rotatesemitones = 12
KeyDownWrap ==
    /\ Press(KEY_DOWN) /\ mode = "normal"
    /\ state' = [state EXCEPT !.rotatesemitones =
                     IF state.rotatesemitones = 0 THEN 12 ELSE state.rotatesemitones]
    /\ hk' = Pressed("down_read", KEY_DOWN)
    /\ autosavecounter' = Countdown(autosavecounter)
    /\ UNCHANGED <<rotatedscale, mode, kbVars, rotatesemitonesCV, overlayVars,
                   glVars, samplingVars, obs, eebusy, eeState, eeScales, bg>>

\* state.rotatesemitones-- is a read and a write
KeyDownRead ==
    /\ hk.pc = "down_read"
    /\ hk' = [hk EXCEPT !.pc = "down_write", !.tmp = state.rotatesemitones]
    /\ UNCHANGED <<progVars, samplingVars, obs, eeVars, bg>>

KeyDownWrite ==
    /\ hk.pc = "down_write"
    /\ state' = [state EXCEPT !.rotatesemitones = SChar(hk.tmp - 1)]
    /\ hk' = [hk EXCEPT !.pc = "rotate_commit"]
    /\ UNCHANGED <<rotatedscale, mode, kbVars, rotatesemitonesCV, overlayVars,
                   glVars, samplingVars, obs, eeVars, bg>>

\* cli(); updateRotation(); sei(); autosavecounter = autosavetime
\* (KEY_UP, KEY_DOWN and the rotate menu end with it)
KeyRotateCommit ==
    /\ hk.pc = "rotate_commit"
    /\ \E u \in UndefRot(state, rotatesemitonesCV, 0) :
           rotatedscale' = UpdateRotationValue(state, rotatesemitonesCV, u)
    /\ autosavecounter' = autosavetime
    /\ hk' = [hk EXCEPT !.pc = "idle"]
    /\ UNCHANGED <<state, mode, kbVars, rotatesemitonesCV, overlayVars, glVars,
                   samplingVars, obs, eebusy, eeState, eeScales, bg>>

\* ---- normal mode, shift held ----
MenuOfKey(k) ==
    CASE k = KEY_GATELENGTH -> "gatelengthmenu"
      [] k = KEY_ROTATE -> "rotate"
      [] k = KEY_TRANSPOSE -> "transpose"
      [] k = KEY_TRANSPOSE_ONE -> "transposeB"
      [] k = KEY_OFFSET -> "offset"
      [] k = KEY_OFFSET_ONE -> "offsetB"
      [] k = KEY_KEYBOARD -> "keyboard"
      [] k = KEY_QM -> "qmodemenu"
      [] k = KEY_TRIGGERDELAY -> "triggerdelaymenu"
      [] k = KEY_CVA -> "cvA"
      [] k = KEY_CVB -> "cvB"
      [] k = KEY_SAVE -> "save"

MenuKeys == (0..12) \ {KEY_LEGATO}

KeyShiftMenu(k) ==
    /\ Press(k) /\ mode = "normal" /\ k \in MenuKeys
    /\ mode' = MenuOfKey(k)
    /\ hk' = Pressed("idle", k)
    /\ autosavecounter' = Countdown(autosavecounter)
    /\ UNCHANGED <<state, rotatedscale, kbVars, rotatesemitonesCV, overlayVars,
                   glVars, samplingVars, obs, eebusy, eeState, eeScales, bg>>

\* key == KEY_LEGATO: state.gatelegato = !state.gatelegato
KeyLegato ==
    /\ Press(KEY_LEGATO) /\ mode = "normal"
    /\ state' = [state EXCEPT !.gatelegato = ~state.gatelegato]
    /\ hk' = Pressed("idle", KEY_LEGATO)
    /\ autosavecounter' = Countdown(autosavecounter)
    /\ UNCHANGED <<rotatedscale, mode, kbVars, rotatesemitonesCV, overlayVars,
                   glVars, samplingVars, obs, eebusy, eeState, eeScales, bg>>

\* ---- every menu: key == KEY_HOME: mode = normal ----
KeyHome ==
    /\ Press(KEY_HOME) /\ mode # "normal"
    /\ mode' = "normal"
    /\ hk' = Pressed("idle", KEY_HOME)
    /\ autosavecounter' = Countdown(autosavecounter)
    /\ UNCHANGED <<state, rotatedscale, kbVars, rotatesemitonesCV, overlayVars,
                   glVars, samplingVars, obs, eebusy, eeState, eeScales, bg>>

\* ---- rotate menu: state.rotatesemitones = key ----
KeyRotateSet(k) ==
    /\ Press(k) /\ mode = "rotate" /\ k < 12
    /\ state' = [state EXCEPT !.rotatesemitones = k]
    /\ hk' = Pressed("rotate_commit", k)
    /\ autosavecounter' = Countdown(autosavecounter)
    /\ UNCHANGED <<rotatedscale, mode, kbVars, rotatesemitonesCV, overlayVars,
                   glVars, samplingVars, obs, eebusy, eeState, eeScales, bg>>

\* ---- keyboard menu ----
\* cli(); keyboardsemitones = key; keyboardtriggered = 2; sei()
KeyKeyboardNote(k) ==
    /\ Press(k) /\ mode = "keyboard" /\ k < 12
    /\ keyboardsemitones' = k
    /\ keyboardtriggered' = 2
    /\ hk' = Pressed("idle", k)
    /\ autosavecounter' = Countdown(autosavecounter)
    /\ UNCHANGED <<state, rotatedscale, mode, keyboardoctaves, rotatesemitonesCV,
                   overlayVars, glVars, samplingVars, obs, eebusy, eeState,
                   eeScales, bg>>

\* KEY_DOWN && keyboardoctaves > -5, KEY_UP && keyboardoctaves < 5
KeyKeyboardOctave(k) ==
    /\ Press(k) /\ mode = "keyboard" /\ k \in {KEY_DOWN, KEY_UP}
    /\ IF k = KEY_DOWN THEN keyboardoctaves > -5 ELSE keyboardoctaves < 5
    /\ keyboardoctaves' = IF k = KEY_DOWN THEN keyboardoctaves - 1
                          ELSE keyboardoctaves + 1
    /\ keyboardtriggered' = 2
    /\ hk' = Pressed("idle", k)
    /\ autosavecounter' = Countdown(autosavecounter)
    /\ UNCHANGED <<state, rotatedscale, mode, keyboardsemitones, rotatesemitonesCV,
                   overlayVars, glVars, samplingVars, obs, eebusy, eeState,
                   eeScales, bg>>

\* ---- transpose, transposeB, offset, offsetB menus ----
MenuField(m) ==
    CASE m = "transpose" -> "transposesemitones"
      [] m = "transposeB" -> "transposeBsemitones"
      [] m = "offset" -> "offsetsemitones"
      [] m = "offsetB" -> "offsetBsemitones"

TransposeMenus == {"transpose", "transposeB", "offset", "offsetB"}

\* x = value + 120; oct = (x/12) - 10; value = 12*oct + key
SemitoneInOctave(value, key) == SChar(12 * ((Byte(value + 120) \div 12) - 10) + key)

KeyTransposeNote(k) ==
    /\ Press(k) /\ mode \in TransposeMenus /\ k < 12
    /\ state' = [state EXCEPT ![MenuField(mode)] =
                     SemitoneInOctave(state[MenuField(mode)], k)]
    /\ autosavecounter' = autosavetime
    /\ hk' = Pressed("idle", k)
    /\ UNCHANGED <<rotatedscale, mode, kbVars, rotatesemitonesCV, overlayVars,
                   glVars, samplingVars, obs, eebusy, eeState, eeScales, bg>>

\* KEY_DOWN && value > -49: value -= 12;  KEY_UP && value < 60: value += 12
KeyTransposeOctave(k) ==
    /\ Press(k) /\ mode \in TransposeMenus /\ k \in {KEY_DOWN, KEY_UP}
    /\ IF k = KEY_DOWN THEN state[MenuField(mode)] > -49
       ELSE state[MenuField(mode)] < 60
    /\ state' = [state EXCEPT ![MenuField(mode)] =
                     IF k = KEY_DOWN THEN SChar(@ - 12) ELSE SChar(@ + 12)]
    /\ autosavecounter' = autosavetime
    /\ hk' = Pressed("idle", k)
    /\ UNCHANGED <<rotatedscale, mode, kbVars, rotatesemitonesCV, overlayVars,
                   glVars, samplingVars, obs, eebusy, eeState, eeScales, bg>>

\* ---- gate length menu: cli(); gatelengthindex = key; updateGatelength(); sei()
KeyGatelength(k) ==
    /\ Press(k) /\ mode = "gatelengthmenu" /\ k < 12
    /\ state' = [state EXCEPT !.gatelengthindex = k]
    /\ gatelength' = UpdateGatelengthValue(k, cvgatelengthindex, cvgatelengthremainder)
    /\ autosavecounter' = autosavetime
    /\ hk' = Pressed("idle", k)
    /\ UNCHANGED <<rotatedscale, mode, kbVars, rotatesemitonesCV, overlayVars,
                   cvgatelengthindex, cvgatelengthremainder, samplingVars, obs,
                   eebusy, eeState, eeScales, bg>>

\* ---- quantization mode menu: state.qmode = (QMode)key ----
KeyQMode(k) ==
    /\ Press(k) /\ mode = "qmodemenu" /\ k <= MAX_Q_MODE
    /\ state' = [state EXCEPT !.qmode = k]
    /\ autosavecounter' = autosavetime
    /\ hk' = Pressed("idle", k)
    /\ UNCHANGED <<rotatedscale, mode, kbVars, rotatesemitonesCV, overlayVars,
                   glVars, samplingVars, obs, eebusy, eeState, eeScales, bg>>

\* ---- trigger delay menu: state.triggerdelay = key ----
KeyTriggerDelay(k) ==
    /\ Press(k) /\ mode = "triggerdelaymenu" /\ k < 12
    /\ state' = [state EXCEPT !.triggerdelay = k]
    /\ autosavecounter' = autosavetime
    /\ hk' = Pressed("idle", k)
    /\ UNCHANGED <<rotatedscale, mode, kbVars, rotatesemitonesCV, overlayVars,
                   glVars, samplingVars, obs, eebusy, eeState, eeScales, bg>>

\* ---- cvA / cvB menus ----
AuxOfMenu(m) == IF m = "cvA" THEN 0 ELSE 1

\* the mode a key selects in the menu of aux input i: key <= MAX_CV_MODE or
\* KEY_LOAD selects (CVMode)key, the menu's own key selects cvoff
CVModeOfKey(i, k) == IF k = KEY_CVA + i THEN cvoff ELSE k

CVMenuKeys(i) == (0..MAX_CV_MODE) \cup {KEY_LOAD, KEY_CVA + i}

\* resetCVState(i), on the overlays as a record
ResetCVState(i, ov) ==
    [ov EXCEPT !.rotatesemitonesCV = 0,
               !.transposesemitonesCV = [@ EXCEPT ![i] = 0],
               !.offsetsemitonesCV = [@ EXCEPT ![i] = 0],
               !.cvgatelengthindex = 0,
               !.cvgatelengthremainder = 0]

Overlays == [rotatesemitonesCV |-> rotatesemitonesCV,
             transposesemitonesCV |-> transposesemitonesCV,
             offsetsemitonesCV |-> offsetsemitonesCV,
             cvgatelengthindex |-> cvgatelengthindex,
             cvgatelengthremainder |-> cvgatelengthremainder]

\* cli(); state.cvmode[i] = ...; resetCVState(i); sei(); autosavecounter = ...
KeyCVMode(k) ==
    /\ Press(k) /\ mode \in {"cvA", "cvB"} /\ k \in CVMenuKeys(AuxOfMenu(mode))
    /\ LET i == AuxOfMenu(mode)
           ov == ResetCVState(i, Overlays)
       IN  /\ state' = [state EXCEPT !.cvmode = [@ EXCEPT ![i] = CVModeOfKey(i, k)]]
           /\ rotatesemitonesCV' = ov.rotatesemitonesCV
           /\ \E u \in UndefRot(state, ov.rotatesemitonesCV, 0) :
                  rotatedscale' = UpdateRotationValue(state, ov.rotatesemitonesCV, u)
           /\ transposesemitonesCV' = ov.transposesemitonesCV
           /\ offsetsemitonesCV' = ov.offsetsemitonesCV
           /\ cvgatelengthindex' = ov.cvgatelengthindex
           /\ cvgatelengthremainder' = ov.cvgatelengthremainder
           /\ obs' = [ObsNone EXCEPT !.kind = "cvmode", !.ch = i,
                                     !.quant = state.cvmode[i]]
    /\ autosavecounter' = autosavetime
    /\ hk' = Pressed("idle", k)
    /\ UNCHANGED <<mode, kbVars, gatelength, samplingVars, eebusy, eeState,
                   eeScales, bg>>

\* ---- load menu: loadScale(key); mode = normal; autosavecounter = ... ----
\* loadScale runs with interrupts enabled: state.scale = tscale
KeyLoadScale(k) ==
    /\ Press(k) /\ mode = "load" /\ k < 12
    /\ state' = [state EXCEPT !.scale = eeScales[k]]
    /\ hk' = Pressed("load_rotate", k)
    /\ autosavecounter' = Countdown(autosavecounter)
    /\ UNCHANGED <<rotatedscale, mode, kbVars, rotatesemitonesCV, overlayVars,
                   glVars, samplingVars, obs, eebusy, eeState, eeScales, bg>>

\* state.rotatesemitones = 0
KeyLoadRotate ==
    /\ hk.pc = "load_rotate"
    /\ state' = [state EXCEPT !.rotatesemitones = 0]
    /\ hk' = [hk EXCEPT !.pc = "load_read1"]
    /\ UNCHANGED <<rotatedscale, mode, kbVars, rotatesemitonesCV, overlayVars,
                   glVars, samplingVars, obs, eeVars, bg>>

\* updateRotation(): the macro mod12 reads its volatile argument twice
KeyLoadRead1 ==
    /\ hk.pc = "load_read1"
    /\ hk' = [hk EXCEPT !.pc = "load_read2",
                        !.tmp = state.rotatesemitones + rotatesemitonesCV]
    /\ UNCHANGED <<progVars, samplingVars, obs, eeVars, bg>>

KeyLoadRead2 ==
    /\ hk.pc = "load_read2"
    /\ LET v == state.rotatesemitones + rotatesemitonesCV
       IN  \E o \in (IF InTable(v) THEN {0} ELSE 0..255) :
               hk' = [hk EXCEPT !.pc = "load_scale",
                                !.rotation = Byte(hk.tmp - (v - mod12(v, o)))]
    /\ UNCHANGED <<progVars, samplingVars, obs, eeVars, bg>>

\* unsigned int myscale = state.scale
KeyLoadReadScale ==
    /\ hk.pc = "load_scale"
    /\ hk' = [hk EXCEPT !.pc = "load_commit", !.tscale = state.scale]
    /\ UNCHANGED <<progVars, samplingVars, obs, eeVars, bg>>

\* rotatedscale = myscale; back in keyDownEvent: mode = normal;
\* autosavecounter = autosavetime
KeyLoadCommit ==
    /\ hk.pc = "load_commit"
    /\ \E w \in (IF hk.rotation <= 12 THEN {0} ELSE 0..65535) :
           rotatedscale' = RotateScale(hk.tscale, hk.rotation,
                                       [NoUndef EXCEPT !.word = w])
    /\ mode' = "normal"
    /\ autosavecounter' = autosavetime
    /\ hk' = [hk EXCEPT !.pc = "idle"]
    /\ UNCHANGED <<state, kbVars, rotatesemitonesCV, overlayVars, glVars,
                   samplingVars, obs, eebusy, eeState, eeScales, bg>>

\* ---- save menu: saveScale(key); mode = normal ----
\* unsigned int tscale = rotatedscale
KeySaveRead(k) ==
    /\ Press(k) /\ mode = "save" /\ k < 12
    /\ hk' = [Pressed("save_wait", k) EXCEPT !.tscale = rotatedscale]
    /\ autosavecounter' = Countdown(autosavecounter)
    /\ UNCHANGED <<progVars, samplingVars, obs, eebusy, eeState, eeScales, bg>>

\* while (eebusy) {}: one more turn of the loop
KeySaveSpin ==
    /\ hk.pc = "save_wait"
    /\ eebusy
    /\ UNCHANGED vars

\* the loop is left; eebusy = true
KeySaveAcquire ==
    /\ hk.pc = "save_wait"
    /\ ~eebusy
    /\ eebusy' = TRUE
    /\ hk' = [hk EXCEPT !.pc = "save_put"]
    /\ UNCHANGED <<progVars, samplingVars, obs, autosavecounter, eeState,
                   eeScales, bg>>

\* EEPROM.put(...); eebusy = false; back in keyDownEvent: mode = normal
KeySavePut ==
    /\ hk.pc = "save_put"
    /\ eeScales' = [eeScales EXCEPT ![hk.key] = hk.tscale]
    /\ eebusy' = FALSE
    /\ mode' = "normal"
    /\ hk' = [hk EXCEPT !.pc = "idle"]
    /\ UNCHANGED <<state, rotatedscale, kbVars, rotatesemitonesCV, overlayVars,
                   glVars, samplingVars, obs, autosavecounter, eeState, bg>>

(***************************************************************************)
(* KassutronicsQuantizer.ino: loop(), and savePersistentState()            *)
(* (SaveRecall.ino).  Every statement is a step; a step is taken only      *)
(* while no interrupt routine is active.                                   *)
(***************************************************************************)
BgStep(from, to) ==
    /\ hk.pc = "idle"
    /\ bg = from
    /\ bg' = to
    /\ UNCHANGED <<progVars, samplingVars, obs, hk>>

\* if (autosavecounter == 1)
BgCheck ==
    /\ autosavecounter = 1
    /\ BgStep("loop", "save_test")
    /\ UNCHANGED eeVars

\* savePersistentState(): if (!eebusy)
BgSaveTest ==
    /\ BgStep("save_test", IF eebusy THEN "reset" ELSE "save_set")
    /\ UNCHANGED eeVars

\* eebusy = true
BgSaveSet ==
    /\ BgStep("save_set", "save_put")
    /\ eebusy' = TRUE
    /\ UNCHANGED <<autosavecounter, eeState, eeScales>>

\* EEPROM.put(EE_ADDR_STATE, state)
BgSavePut ==
    /\ BgStep("save_put", "save_clear")
    /\ eeState' = state
    /\ UNCHANGED <<autosavecounter, eebusy, eeScales>>

\* eebusy = false
BgSaveClear ==
    /\ BgStep("save_clear", "reset")
    /\ eebusy' = FALSE
    /\ UNCHANGED <<autosavecounter, eeState, eeScales>>

\* back in loop(): autosavecounter = 0
BgReset ==
    /\ BgStep("reset", "loop")
    /\ autosavecounter' = 0
    /\ UNCHANGED <<eebusy, eeState, eeScales>>

Background == BgCheck \/ BgSaveTest \/ BgSaveSet \/ BgSavePut \/ BgSaveClear \/ BgReset

(***************************************************************************)
(* The scale keys against the sampling interrupt.  Aux input A is stored   *)
(* as a rotation input; the keys are the note keys, rotate up and down,    *)
(* the rotate menu and the load menu.                                      *)
(***************************************************************************)
\* aux A is stored as a rotation input; bank 1 holds a stored scale
InitKeys ==
    /\ Boot([DefaultState EXCEPT !.cvmode = [@ EXCEPT ![0] = cvrotate]],
            [k \in 0..11 |-> IF k = 1 THEN 34944 ELSE 0], PinsHigh, MaxKeys)
    /\ q = QNone

KeysToggle == (\E k \in {0, 7} : KeyToggleRead1(k)) \/ KeyToggleRead2 \/ KeyToggleCommit

KeysUpDown ==
    \/ KeyUpRead \/ KeyUpWrite \/ KeyUpWrap
    \/ KeyDownWrap \/ KeyDownRead \/ KeyDownWrite
    \/ KeyRotateCommit

KeysRotateMenu == KeyShiftMenu(KEY_ROTATE) \/ (\E k \in {0, 5} : KeyRotateSet(k)) \/ KeyHome

KeysLoad ==
    \/ KeyLoadMenu \/ KeyLoadScale(1) \/ KeyLoadRotate \/ KeyLoadRead1 \/ KeyLoadRead2
    \/ KeyLoadReadScale \/ KeyLoadCommit

\* the channels rest at 0 V and wait for a trigger, aux A moves between two
\* semitones
SpecKeys ==
    InitKeys /\ [][\/ ADCInterrupt([src \in 0..3 |-> IF src = 1 THEN {32, 40} ELSE {0}])
                   \/ KeysToggle \/ KeysUpDown \/ KeysRotateMenu \/ KeysLoad]_vars

\* C1: whenever the sampling interrupt can start (no step of the model is
\* inside a section that disables interrupts, so that is in every state),
\* rotatedscale is state.scale rotated by
\* (state.rotatesemitones + rotatesemitonesCV) mod 12 and masked to 0xFFF0.
RotatedScaleConsistent ==
    rotatedscale = And16(UpdateRotationValue(state, rotatesemitonesCV, NoUndef), 65520)

(***************************************************************************)
(* Saving: the note keys and the save menu against the countdown of the    *)
(* timer interrupt and the autosave of loop().                             *)
(***************************************************************************)
InitSave == Boot(DefaultState, EmptyBanks, PinsHigh, MaxKeys) /\ q = QNone

SaveEdit == (\E k \in {0, 4} : KeyToggleRead1(k)) \/ KeyToggleRead2 \/ KeyToggleCommit

SaveMenu ==
    \/ KeyShiftMenu(KEY_SAVE) \/ KeyHome
    \/ KeySaveRead(2) \/ KeySaveSpin \/ KeySaveAcquire \/ KeySavePut

\* all four inputs rest at 0 V
SpecSave ==
    InitSave /\ [][\/ ADCInterrupt([src \in 0..3 |-> {0}])
                   \/ HKTick \/ SaveEdit \/ SaveMenu \/ Background]_vars

\* C2: the housekeeping interrupt is never inside saveScale's wait loop with
\* eebusy set: the flag was set by loop(), which does not run before the
\* interrupt returns, so the loop would never end.
SaveScaleNeverWaits == ~(hk.pc = "save_wait" /\ eebusy)

\* the stored fields an edit by key arms the autosave for (all but gatelegato)
Edited(st) == [st EXCEPT !.gatelegato = FALSE]

\* C8: when no autosave is pending (the countdown is 0, loop() is at its test
\* and no key is being handled), the stored configuration contains every edit.
NoEditLost ==
    (autosavecounter = 0 /\ bg = "loop" /\ hk.pc = "idle")
        => Edited(eeState) = Edited(state)

(***************************************************************************)
(* The channels: free running samples and the keyboard menu, for a few     *)
(* stored configurations.                                                  *)
(***************************************************************************)
\* the defaults, and quantizeSkip with a transposition of two semitones; each
\* without and with legato
ChanStates ==
    { [DefaultState EXCEPT !.qmode = c[1], !.transposesemitones = c[2],
                           !.gatelegato = l] :
          c \in {<<qmnearest, 0>>, <<qmskip, 2>>}, l \in BOOLEAN }

InitChan ==
    \E st \in ChanStates : Boot(st, EmptyBanks, PinsLow, MaxKeys) /\ q = QNone

ChanKeys == KeyShiftMenu(KEY_KEYBOARD) \/ (\E k \in {5, 7} : KeyKeyboardNote(k))

\* channel A moves between two semitones
SpecChan ==
    InitChan /\ [][\/ ADCInterrupt([src \in 0..3 |-> IF src = 0 THEN {0, 8} ELSE {0}])
                   \/ ChanKeys]_vars

\* the step is a call of processChannel(i, ...)
ChannelSampled(i) ==
    nextchannel' # nextchannel /\ obs'.kind # "cv" /\ obs'.ch = i

\* C3: on a sample for which the configured quantizer returned the sentinel
\* 255, processChannel accepts nothing: outval, the pitch output and the gate
\* stay as they were.
SentinelHoldsOutput ==
    (obs.kind = "channel" /\ obs.quant = 255) => ~obs.trig

\* C5: the gate is turned on only by a call of processChannel that accepted
\* nothing, found gatecounter = 0 and found outval different from
\* lastgateoutval; lastgateoutval changes only then, to the outval of that
\* moment; and a run of two accepted triggers with the same value that had no
\* gate between them gets at most one gate.
GateSuppression ==
    /\ [](\A i \in 0..1 :
             (chanhist[i].trigs = 2 /\ ~chanhist[i].between) => chanhist[i].gates <= 1)
    /\ [][\A i \in 0..1 :
             LET on == ChannelSampled(i) /\ obs'.gateon
             IN  /\ on => (~obs'.trig /\ gatecounter[i] = 0
                           /\ outval'[i] # lastgateoutval[i])
                 /\ lastgateoutval'[i] = IF on THEN outval'[i] ELSE lastgateoutval[i]
                 /\ (gate'[i] /\ ~gate[i]) => on]_vars

GateSuppressionWitness ==
    \E i \in 0..1 :
        /\ chanhist[i].trigs = 2 /\ chanhist[i].gates = 1 /\ ~chanhist[i].between
        /\ gate[i]
        /\ lastgateoutval[i] = outval[i]

(***************************************************************************)
(* The keyboard menu: octave and note keys while the channels are sampled. *)
(***************************************************************************)
MaxKeyboardKeys == 7

InitKeyboard == Boot(DefaultState, EmptyBanks, PinsLow, MaxKeyboardKeys) /\ q = QNone

KeyboardKeys ==
    \/ KeyShiftMenu(KEY_KEYBOARD)
    \/ (\E k \in {KEY_UP, KEY_DOWN} : KeyKeyboardOctave(k))
    \/ KeyKeyboardNote(11)

SpecKeyboard ==
    InitKeyboard /\ [][ADCInterrupt([src \in 0..3 |-> {0}]) \/ KeyboardKeys]_vars

\* C4: the output value of each channel, and the value written to its pitch
\* output, is in 0..127.
OutvalInRange ==
    \A i \in 0..1 : outval[i] \in 0..127 /\ dac[i] \in 0..127

(***************************************************************************)
(* The trigger inputs: level changes of the two pins against the samples.  *)
(* The stored scale is empty, so that no trigger is accepted.              *)
(***************************************************************************)
\* the stored scale is empty
InitTrig ==
    Boot([DefaultState EXCEPT !.scale = 0], EmptyBanks, PinsLow, 0) /\ q = QNone

SpecTrig ==
    InitTrig /\ [][\/ ADCInterrupt([src \in 0..3 |-> {0}])
                   \/ (\E i \in 0..1 : PinChange(i))]_vars

\* C6 as stated: a channel in triggered mode is back in free running mode
\* once triggerautotime samples (and the debounce time, and the two samples
\* the counter needs to pass the limit) have gone by without an edge.
RevertsAtAnyLevel ==
    \A i \in 0..1 :
        ~freerunning[i] => chanhist[i].quiet <= triggerautotime + triggerdebounce + 2

\* C6, amended: a free running channel enters triggered mode exactly on a
\* sample that reads its pin high; a triggered channel returns to free
\* running exactly on a sample that finds no edge, reads the pin low and
\* finds triggercounter above triggerautotime, which is never more than
\* triggerautotime + triggerdebounce + 2 samples after the last edge; while
\* the pin reads high the channel stays triggered.
TriggerRoundTrip ==
    /\ [](\A i \in 0..1 :
             (~freerunning[i] /\ ~din[i] /\ ~eifr[i])
                 => chanhist[i].quiet <= triggerautotime + triggerdebounce + 2)
    /\ [][\A i \in 0..1 :
             /\ (freerunning[i] /\ ~freerunning'[i])
                    <=> (ChannelSampled(i) /\ freerunning[i] /\ din[i])
             /\ (~freerunning[i] /\ freerunning'[i])
                    <=> (ChannelSampled(i) /\ ~freerunning[i] /\ ~eifr[i] /\ ~din[i]
                         /\ triggercounter[i] > triggerautotime)]_vars

\* channel A has been triggered and is free running again
TriggerRoundTripWitness ==
    /\ freerunning[0]
    /\ triggercounter[0] = triggerautotime + 1
    /\ ~din[0]

(***************************************************************************)
(* The cvA menu: aux input A is stored as a transpose input for both       *)
(* channels and is reassigned; aux input B is off.                         *)
(***************************************************************************)
\* aux A is stored as the transpose input of both channels
InitCV ==
    /\ Boot([DefaultState EXCEPT !.cvmode = [@ EXCEPT ![0] = cvtranspose]],
            EmptyBanks, PinsHigh, MaxKeys)
    /\ q = QNone

CVKeys ==
    \/ KeyShiftMenu(KEY_CVA)
    \/ (\E k \in {cvrotate, cvoffset, KEY_CVA} : KeyCVMode(k))
    \/ KeyHome

\* aux A is at semitone 69 of its range, six above its neutral point, or at
\* semitone 74
SpecCV ==
    InitCV /\ [][\/ ADCInterrupt([src \in 0..3 |-> IF src = 1 THEN {560, 600}
                                                   ELSE {0}])
                 \/ CVKeys]_vars

\* C7: when the cvA menu has reassigned aux input A (aux input B being off),
\* nothing of what the input contributed is left: the aux rotation, the
\* transpose and offset overlays of both channels and the gate length index
\* and remainder are neutral, and rotatedscale is recomputed.
ReassignResetsOverlays ==
    (obs.kind = "cvmode" /\ obs.ch = 0)
        => /\ rotatesemitonesCV = 0
           /\ \A c \in 0..1 : transposesemitonesCV[c] = 0 /\ offsetsemitonesCV[c] = 0
           /\ cvgatelengthindex = 0 /\ cvgatelengthremainder = 0
           /\ rotatedscale = UpdateRotationValue(state, 0, NoUndef)

(***************************************************************************)
(* Direct calls of updateRotation: rotate by r, then rotate the result by  *)
(* 12 - r (mod 12).                                                        *)
(***************************************************************************)
\* all 12 bit scales, stored in the top 12 bits of the word
Scales12 == {16 * n : n \in 0..4095}

MaxRotation == 11

InitRot ==
    \E S \in Scales12, r \in 0..MaxRotation :
        /\ Boot([DefaultState EXCEPT !.scale = S], EmptyBanks, PinsLow, 0)
        /\ q = [QNone EXCEPT !.phase = "in", !.s0 = S, !.r = r]

\* the rotate menu sets state.rotatesemitones = key and calls updateRotation()
RotForward ==
    /\ q.phase = "in"
    /\ state' = [state EXCEPT !.rotatesemitones = q.r]
    /\ rotatedscale' = UpdateRotationValue(state', rotatesemitonesCV, NoUndef)
    /\ q' = [q EXCEPT !.phase = "forward"]
    /\ UNCHANGED <<mode, keyboardoctaves, keyboardsemitones, keyboardtriggered,
                   rotatesemitonesCV, transposesemitonesCV, offsetsemitonesCV,
                   gatelength, cvgatelengthindex, cvgatelengthremainder,
                   chanVars, CVquantized, hwVars, eeVars, hk, bg, obs>>

\* the rotated scale is taken as the scale and rotated by (12 - r) mod 12
RotBack ==
    /\ q.phase = "forward"
    /\ state' = [state EXCEPT !.scale = rotatedscale,
                              !.rotatesemitones = (12 - q.r) % 12]
    /\ rotatedscale' = UpdateRotationValue(state', rotatesemitonesCV, NoUndef)
    /\ q' = [q EXCEPT !.phase = "back"]
    /\ UNCHANGED <<mode, keyboardoctaves, keyboardsemitones, keyboardtriggered,
                   rotatesemitonesCV, transposesemitonesCV, offsetsemitonesCV,
                   gatelength, cvgatelengthindex, cvgatelengthremainder,
                   chanVars, CVquantized, hwVars, eeVars, hk, bg, obs>>

SpecRot == InitRot /\ [][RotForward \/ RotBack]_vars

\* C9: for every 12 bit scale S and every rotation r in 0..11, rotating S by r
\* and the result by (12 - r) mod 12 gives S again, and every value assigned
\* to rotatedscale has its low 4 bits clear.
RotationRoundTrip ==
    /\ q.phase = "back" => rotatedscale = q.s0
    /\ q.phase \in {"forward", "back"} => rotatedscale % 16 = 0

RotationRoundTripWitness ==
    /\ q.phase = "back"
    /\ q.r = 5
    /\ q.s0 = DefaultScale
    /\ state.scale # DefaultScale
    /\ rotatedscale = DefaultScale

(***************************************************************************)
(* Direct calls of the three scale quantizers on the rotated scale.        *)
(***************************************************************************)
\* the samples processChannel can pass: a raw sample 0..1023 after
\* hysteresis, plus 8 times the sum of the three offsets
QAdcBelow == 1472
QAdcAbove == 2671

QSamples == (0 - QAdcBelow)..QAdcAbove

QScales == {0, DefaultScale, 32768, 16, 65520}

QInputs ==
    \* every scale and base rotation, one sample
    [scale : Scales12, rs : 0..MaxRotation, rcv : {0}, adc : {16}, oob : {0}]
    \cup
    \* a few scales and rotations, every sample
    [scale : QScales, rs : {0, 7}, rcv : {0, 5},
     adc : {a \in QSamples : ~QOutOfTable(a)}, oob : {0}]
    \cup
    \* the samples whose table read is outside the table, every byte read there
    [scale : QScales, rs : {0}, rcv : {0},
     adc : {a \in QSamples : QOutOfTable(a)}, oob : 0..255]

InitQ ==
    \E in \in QInputs :
        /\ Boot([DefaultState EXCEPT !.scale = in.scale], EmptyBanks, PinsLow, 0)
        /\ q = [QNone EXCEPT !.phase = "in", !.adc = in.adc, !.oob = in.oob,
                             !.s0 = in.rcv, !.r = in.rs]

\* the rotations take effect: updateRotation()
QRotate ==
    /\ q.phase = "in"
    /\ state' = [state EXCEPT !.rotatesemitones = q.r]
    /\ rotatesemitonesCV' = q.s0
    /\ rotatedscale' = UpdateRotationValue(state', rotatesemitonesCV', NoUndef)
    /\ q' = [q EXCEPT !.phase = "rot"]
    /\ UNCHANGED <<mode, keyboardoctaves, keyboardsemitones, keyboardtriggered,
                   transposesemitonesCV, offsetsemitonesCV,
                   gatelength, cvgatelengthindex, cvgatelengthremainder,
                   chanVars, CVquantized, hwVars, eeVars, hk, bg, obs>>

QQuantize ==
    /\ q.phase = "rot"
    /\ q' = [q EXCEPT !.phase = "done",
                      !.nearest = quantizeNearest(q.adc, rotatedscale, q.oob),
                      !.skip = quantizeSkip(q.adc, rotatedscale, q.oob),
                      !.equal = quantizeEqual(q.adc, rotatedscale, q.oob)]
    /\ UNCHANGED <<progVars, chanVars, CVquantized, hwVars, eeVars, hk, bg, obs>>

SpecQ == InitQ /\ [][QRotate \/ QQuantize]_vars

\* C10: with an empty rotated scale each of the three quantizers returns a
\* value >= 128 for every sample; and the rotated scale is empty exactly when
\* the scale is.
EmptyScaleSentinel ==
    /\ (q.phase = "done" /\ rotatedscale = 0)
           => (q.nearest >= 128 /\ q.skip >= 128 /\ q.equal >= 128)
    /\ q.phase \in {"rot", "done"} => ((rotatedscale = 0) <=> (state.scale = 0))

EmptyScaleSentinelWitness ==
    /\ q.phase = "done"
    /\ rotatedscale = 0
    /\ q.adc = 100
    /\ q.nearest = 255 /\ q.skip = 255 /\ q.equal = 255

\* C11 (as the code decides it): quantizeNearest returns the rounded note when
\* its position (note + 8) mod 12 is enabled in the rotated scale, otherwise
\* the nearer of the nearest enabled positions above and below (wrapping over
\* the octave), and on a tie the higher one when the sample's remainder
\* (sample mod 8) is below 4 and the lower one when it is 4 or more.
NearestTieBreak ==
    (q.phase = "done" /\ rotatedscale # 0 /\ ~QOutOfTable(q.adc)) =>
        LET note == QNote(q.adc)
            p == (note + 8) % 12
            E == {j \in 0..11 : Bit(rotatedscale, j) = 1}
            up == CHOOSE d \in 1..12 :
                      /\ (p + d) % 12 \in E
                      /\ \A e \in 1..(d - 1) : (p + e) % 12 \notin E
            down == CHOOSE d \in 1..12 :
                        /\ (p + 12 - d) % 12 \in E
                        /\ \A e \in 1..(d - 1) : (p + 12 - e) % 12 \notin E
        IN  q.nearest = IF p \in E THEN note
                        ELSE IF up < down THEN Byte(note + up)
                        ELSE IF down < up THEN Byte(note - down)
                        ELSE IF q.adc % 8 < 4 THEN Byte(note + up)
                        ELSE Byte(note - down)

\* a sample exactly on a disabled semitone whose neighbours are both enabled
NearestTieBreakWitness ==
    /\ q.phase = "done"
    /\ rotatedscale = DefaultScale
    /\ q.adc = 40
    /\ q.nearest = 6

\* C11 (as stated): on a tie the lower candidate is returned when the
\* remainder is below 4 and the higher candidate when it is 4 or more.
NearestTieLowerFirst ==
    (q.phase = "done" /\ rotatedscale # 0 /\ ~QOutOfTable(q.adc)) =>
        LET note == QNote(q.adc)
            p == (note + 8) % 12
            E == {j \in 0..11 : Bit(rotatedscale, j) = 1}
            up == CHOOSE d \in 1..12 :
                      /\ (p + d) % 12 \in E
                      /\ \A e \in 1..(d - 1) : (p + e) % 12 \notin E
            down == CHOOSE d \in 1..12 :
                        /\ (p + 12 - d) % 12 \in E
                        /\ \A e \in 1..(d - 1) : (p + 12 - e) % 12 \notin E
        IN  (p \notin E /\ up = down) =>
                q.nearest = IF q.adc % 8 < 4 THEN Byte(note - down)
                            ELSE Byte(note + up)

\* C12 (as the code decides it): quantizeSkip returns the rounded note when
\* the rotated scale is not empty and position (note + 8) mod 12 is enabled in
\* it, and 255 otherwise; with the major pattern and no rotation the raw value
\* 8 (note 1, position 9) returns 1 and the raw value 16 (note 2, position 10)
\* returns 255.
SkipByPosition ==
    (q.phase = "done" /\ ~QOutOfTable(q.adc)) =>
        LET note == QNote(q.adc)
            p == (note + 8) % 12
        IN  /\ q.skip = IF rotatedscale # 0 /\ Bit(rotatedscale, p) = 1 THEN note
                        ELSE 255
            /\ (rotatedscale = DefaultScale /\ q.adc = 8) => q.skip = 1
            /\ (rotatedscale = DefaultScale /\ q.adc = 16) => q.skip = 255

SkipByPositionWitness ==
    /\ q.phase = "done"
    /\ state.scale = DefaultScale
    /\ state.rotatesemitones = 0
    /\ rotatesemitonesCV = 0
    /\ q.adc = 16
    /\ q.skip = 255

\* C12 (as stated): with the major pattern and no rotation, quantizeSkip
\* returns the sentinel for the raw value 8 and 2 for the raw value 16.
SkipMajorExample ==
    (q.phase = "done" /\ state.scale = DefaultScale /\ state.rotatesemitones = 0
        /\ rotatesemitonesCV = 0) =>
        /\ q.adc = 8 => q.skip >= 128
        /\ q.adc = 16 => q.skip = 2

\* C13: for a rotated scale with k > 0 enabled notes, quantizeEqual returns the
\* octave base plus the enabled position of rank floor(position * k / 96),
\* position being the sample's place within its octave.  The place is counted
\* in ADC units from the octave's first position (note + 8 = 0 mod 12), or
\* from any point c of the 8 units below it.
EqualRankByPlace ==
    (q.phase = "done" /\ rotatedscale # 0 /\ q.adc \in 0..1023) =>
        LET notes == EnabledNotes(rotatedscale)
            k == Len(notes)
            value(c) ==
                LET place == (q.adc + 64 + c) % 96
                    base == 12 * ((q.adc + 64 + c) \div 96) - 8
                    rank == (place * k) \div 96
                IN  Byte(base + notes[rank + 1])
        IN  \E c \in 0..7 : q.equal = value(c)

(***************************************************************************)
(* Direct calls of processCV in gate length mode: for every stored gate    *)
(* length index and every sample of aux input A, the index, the remainder  *)
(* and updateGatelength().                                                 *)
(***************************************************************************)
InitGatelength ==
    \E g \in 0..11, a \in 0..1023 :
        /\ Boot([DefaultState EXCEPT !.gatelengthindex = g,
                                     !.cvmode = [@ EXCEPT ![0] = cvgatelength]],
                EmptyBanks, PinsLow, 0)
        /\ q = [QNone EXCEPT !.phase = "in", !.adc = a]

GatelengthSample ==
    /\ q.phase = "in"
    /\ ProcessCV(0, q.adc)
    /\ q' = [q EXCEPT !.phase = "done"]
    /\ UNCHANGED <<din, nextchannel, admux, convsrc, eeVars, hk, bg>>

SpecGatelength == InitGatelength /\ [][GatelengthSample]_vars

\* C14: for a combined index i in 0..10 and a remainder r in 0..39,
\* updateGatelength sets gatelength to table[i] + floor(r * (table[i+1] -
\* table[i]) / 39), a value between table[i] and table[i+1]; for i < 0 it is
\* 5 and for i > 10 it is 10000.
GatelengthInterpolation ==
    q.phase = "done" =>
        LET i == state.gatelengthindex + cvgatelengthindex
            r == cvgatelengthremainder
        IN  /\ r \in 0..39
            /\ i < 0 => gatelength = 5
            /\ i > 10 => gatelength = 10000
            /\ i \in 0..10 =>
                   /\ gatelength = gatelengths[i + 1]
                          + (r * (gatelengths[i + 2] - gatelengths[i + 1])) \div 39
                   /\ gatelength >= gatelengths[i + 1]
                   /\ gatelength <= gatelengths[i + 2]

\* C16: state.rotatesemitones is in 0..11 whenever the sampling interrupt can
\* be taken; it can be taken in every state, the steps between cli() and
\* sei() being single steps.
RotationInRange == state.rotatesemitones \in 0..11

(***************************************************************************)
(* Triggered mode: a cable holds the trigger input of channel A high at    *)
(* power-up, the trigger signal changes level a few times, and the input   *)
(* of channel A moves between two notes.                                   *)
(***************************************************************************)
InitFire ==
    \E s \in {0, 1, 3} :
        /\ Boot([DefaultState EXCEPT !.triggerdelay = s], EmptyBanks, PinsHigh, 0)
        /\ q = QNone

SpecFire ==
    InitFire /\ [][\/ ADCInterrupt([src \in 0..3 |-> IF src = 0 THEN {0, 16} ELSE {0}])
                   \/ PinChangeCounted(0)]_vars

\* C17: outside keyboard mode, a call of processChannel accepts its candidate
\* exactly when the candidate is < 128 and either the channel is free running
\* and the candidate differs from outval, or triggerdelay is 1; outval changes
\* only by an acceptance, so in triggered mode only on a sample that found
\* triggerdelay = 1.
AcceptanceRule ==
    [][\A i \in 0..1 :
          /\ (ChannelSampled(i) /\ mode # "keyboard") =>
                 /\ obs'.trig <=>
                        /\ obs'.candidate < 128
                        /\ \/ freerunning[i] /\ obs'.candidate # outval[i]
                           \/ triggerdelay[i] = 1
                 /\ obs'.trig => outval'[i] = obs'.candidate
          /\ outval'[i] # outval[i] =>
                 /\ ChannelSampled(i) /\ obs'.trig
                 /\ ~freerunning[i] => triggerdelay[i] = 1]_vars

\* a sample in triggered mode whose candidate differs from outval and is held
AcceptanceRuleWitness ==
    /\ obs.kind = "channel" /\ obs.ch = 0
    /\ ~obs.trig
    /\ obs.candidate < 128
    /\ obs.candidate # outval[0]
    /\ ~freerunning[0]

\* C18: in triggered mode, outside keyboard mode, while an edge accepted on
\* sample n is pending (no further edge found, no return to free running),
\* the channel's sample n + 1 + k accepts its candidate exactly when
\* k = 5 * state.triggerdelay and the candidate is < 128; no sample before it
\* accepts, and the trigger is spent on that sample.
TriggerDelayTiming ==
    [][\A i \in 0..1 :
          (ChannelSampled(i) /\ mode # "keyboard" /\ ~freerunning[i]) =>
              LET k == chanhist[i].pend
              IN  /\ k >= 0 =>
                         (obs'.trig <=> (k = triggerdelayscale * state.triggerdelay
                                         /\ obs'.candidate < 128))
                  /\ (obs'.trig /\ ~obs'.edge) => chanhist'[i].pend < 0]_vars

\* the trigger delay setting is 1 and the candidate was accepted on the sixth
\* sample after the edge, the trigger signal still being active
TriggerDelayTimingWitness ==
    /\ obs.kind = "channel" /\ obs.ch = 0
    /\ obs.trig
    /\ state.triggerdelay = 1
    /\ ~freerunning[0] /\ ~din[0]
    /\ triggercounter[0] = 0
    /\ chanhist[0].edges = 1

\* C19: L = gatelength.  An acceptance on sample n clears the gate unless
\* legato is on, and then leaves it as it is; with no acceptance since, the
\* gate is set on sample n + gatedelay exactly when outval differs from
\* lastgateoutval, it is cleared on sample n + gatedelay + L, and no other
\* sample up to that one changes it.
GateTiming ==
    [][\A i \in 0..1 :
          ChannelSampled(i) =>
              LET k == chanhist[i].since
                  L == gatelength
              IN  /\ obs'.trig => gate'[i] = (state.gatelegato /\ gate[i])
                  /\ (~obs'.trig /\ k = gatedelay - 1) =>
                         /\ obs'.gateon <=> outval[i] # lastgateoutval[i]
                         /\ gate'[i] = (gate[i] \/ obs'.gateon)
                  /\ (~obs'.trig /\ k = gatedelay - 1 + L) => ~gate'[i]
                  /\ (~obs'.trig /\ k < SinceCap
                         /\ k \notin {gatedelay - 1, gatedelay - 1 + L}) =>
                         gate'[i] = gate[i]]_vars

\* the gate of an accepted note has been on and was cleared by the sample
\* n + gatedelay + L
GateTimingWitness ==
    /\ obs.kind \in {"channel", "keyboard"} /\ obs.ch = 0
    /\ obs.gateoff /\ ~obs.trig
    /\ ~gate[0]
    /\ chanhist[0].gates = 1
    /\ chanhist[0].since = SinceCap
    /\ lastgateoutval[0] = outval[0]

(***************************************************************************)
(* The gate length changes while a gate is on: aux input A is in gate      *)
(* length mode and moves between two voltages, the gate length menu is     *)
(* used, and channel A holds one note.                                     *)
(***************************************************************************)
InitGate ==
    /\ Boot([DefaultState EXCEPT !.cvmode = [@ EXCEPT ![0] = cvgatelength]],
            EmptyBanks, PinsLow, MaxKeys)
    /\ q = QNone

SpecGate ==
    InitGate /\ [][\/ ADCInterrupt([src \in 0..3 |-> IF src = 0 THEN {16}
                                                     ELSE IF src = 1 THEN {0, 552}
                                                     ELSE {0}])
                   \/ KeyShiftMenu(KEY_GATELENGTH)
                   \/ (\E k \in {0, 2} : KeyGatelength(k))]_vars

\* C20: a gate that is on is turned off within a bounded number of samples
\* if nothing more is accepted: its turn-off, the sample that finds
\* gatecounter = gatelength, is still ahead.  (Past gatelength the counter
\* stops, and only another acceptance clears the gate.)
GateOffAhead ==
    \A i \in 0..1 : gate[i] => gatecounter[i] <= gatelength

(***************************************************************************)
(* Hardware.ino: ISR(TIMER0_COMPA_vect), instruction by instruction, with  *)
(* the timer hardware.  The compare flag is set once per timer period,     *)
(* whatever the routine is doing; the interrupt is taken when the flag,    *)
(* its enable bit and the global interrupt flag are all set.  processIO    *)
(* finds no key edge.                                                      *)
(***************************************************************************)
\* the timer reaches OCR0A
TimerCompareMatch ==
    /\ ~hk.ocf
    /\ hk' = [hk EXCEPT !.ocf = TRUE]
    /\ UNCHANGED <<progVars, samplingVars, eeVars, bg, obs>>

\* the hardware takes the interrupt: it clears the compare flag and the
\* global interrupt flag
TimerEnter ==
    /\ hk.ocf /\ hk.ocie /\ hk.iflag
    /\ hk.frames < MaxNest
    /\ hk' = [hk EXCEPT !.pc = "isr", !.ocf = FALSE, !.iflag = FALSE,
                        !.frames = @ + 1]
    /\ UNCHANGED <<progVars, samplingVars, eeVars, bg, obs>>

\* mutant: sei() without cbi(TIMSK0, OCIE0A) before it
TimerMask_noblock ==
    /\ hk.pc = "isr"
    /\ hk' = [hk EXCEPT !.pc = "io", !.iflag = TRUE, !.ios = @ + 1]
    /\ UNCHANGED <<progVars, samplingVars, eeVars, bg, obs>>

\* cbi(TIMSK0, OCIE0A); sei(); and the call of processIO
TimerMask ==
    /\ hk.pc = "isr"
    /\ hk' = [hk EXCEPT !.pc = "io", !.ocie = FALSE, !.iflag = TRUE, !.ios = @ + 1]
    /\ UNCHANGED <<progVars, samplingVars, eeVars, bg, obs>>

\* processIO: getDisplayState(shift)
TimerDisplay ==
    /\ hk.pc = "io"
    /\ autosavecounter' = Countdown(autosavecounter)
    /\ hk' = [hk EXCEPT !.pc = "io_shift"]
    /\ UNCHANGED <<progVars, samplingVars, eebusy, eeState, eeScales, bg, obs>>

\* processIO: the shift registers, the debounce, no edge; processIO returns
TimerScan ==
    /\ hk.pc = "io_shift"
    /\ hk' = [hk EXCEPT !.pc = "io_done", !.ios = @ - 1]
    /\ UNCHANGED <<progVars, samplingVars, eeVars, bg, obs>>

\* sbi(TIMSK0, OCIE0A)
TimerUnmask ==
    /\ hk.pc = "io_done"
    /\ hk' = [hk EXCEPT !.pc = "isr_exit", !.ocie = TRUE]
    /\ UNCHANGED <<progVars, samplingVars, eeVars, bg, obs>>

\* the epilogue of the routine and reti, back to the interrupted code
TimerReturn ==
    /\ hk.pc = "isr_exit"
    /\ hk' = [hk EXCEPT !.pc = IF hk.frames = 1 THEN "idle" ELSE "isr_exit",
                        !.frames = @ - 1, !.iflag = TRUE]
    /\ UNCHANGED <<progVars, samplingVars, eeVars, bg, obs>>

InitTimer == Boot(DefaultState, EmptyBanks, PinsHigh, 0) /\ q = QNone

SpecTimer ==
    InitTimer /\ [][\/ (hk.iflag /\ ADCInterrupt([src \in 0..3 |-> {0}]))
                    \/ TimerCompareMatch \/ TimerEnter \/ TimerMask
                    \/ TimerDisplay \/ TimerScan \/ TimerUnmask
                    \/ TimerReturn]_vars

\* C15: at most one call of processIO is in progress, however many timer
\* periods it takes; and while it is in progress the timer interrupt is
\* disabled and the global interrupt flag is set, so that the sampling
\* interrupt is taken at each of its points.
NoSelfNesting ==
    /\ hk.ios <= 1
    /\ hk.pc \in {"io", "io_shift"} => (hk.ios = 1 /\ ~hk.ocie /\ hk.iflag)
    /\ hk.pc \in {"isr", "io", "io_shift", "io_done", "isr_exit"} <=> hk.frames > 0

\* processIO is running in a routine entered from the epilogue of the one
\* before, a further timer period has gone by, and a channel was sampled
NoSelfNestingWitness ==
    /\ hk.pc = "io_shift"
    /\ hk.frames = 2
    /\ hk.ocf
    /\ obs.kind = "channel"


(***************************************************************************)
(* Aux input A is in gate length mode at one of two voltages and is        *)
(* reassigned in the cvA menu, while both channels are sampled.            *)
(***************************************************************************)
SpecReassign ==
    InitGate /\ [][\/ ADCInterrupt([src \in 0..3 |-> IF src = 1 THEN {0, 552}
                                                     ELSE {0}])
                   \/ KeyShiftMenu(KEY_CVA)
                   \/ (\E k \in {cvgatelength, KEY_CVA} : KeyCVMode(k))]_vars

\* C21: the gatelength a channel sample has read is the value of
\* updateGatelength() for the configured index and the aux gate length
\* index and remainder in effect at that sample.  (resetCVState clears the
\* aux index and remainder and does not call updateGatelength.)
GatelengthCurrent ==
    obs.kind = "channel"
        => gatelength = UpdateGatelengthValue(state.gatelengthindex,
                                              cvgatelengthindex,
                                              cvgatelengthremainder)


\* C22: whenever quantizeNearest returns a note in range (below 128) for a
\* rotated scale that is not empty, the position (note + 8) mod 12 of that
\* note is enabled, no note with an enabled position is closer to the
\* sample's semitone, rounded half up, than the returned note, and a rounded
\* semitone whose position is enabled is returned itself.  (The quantizer
\* keeps the rounded semitone in a byte: from sample 2044 on it searches
\* around the semitone less 256, and below sample -4 around 255.)
NearestIsClosest ==
    (q.phase = "done" /\ rotatedscale # 0 /\ q.nearest < 128) =>
        LET sem == Shr(q.adc + quartertone, 3)
            E == {j \in 0..11 : Bit(rotatedscale, j) = 1}
            dist(n) == IF n >= sem THEN n - sem ELSE sem - n
        IN  /\ (q.nearest + 8) % 12 \in E
            /\ \A n \in (sem - 12)..(sem + 12) :
                   (n + 8) % 12 \in E => dist(n) >= dist(q.nearest)
            /\ (sem + 8) % 12 \in E => q.nearest = sem


\* C23: a sample of an aux input that is not in gate length mode and whose
\* quantized value equals the stored one, and any sample of an aux input
\* that is off, leaves the configuration, the aux rotation, rotatedscale,
\* the transpose and offset overlays, the aux gate length index and
\* remainder and gatelength as they were.
AuxFiresOnChange ==
    [][(nextchannel' # nextchannel /\ ReadChannel(nextchannel') % 2 = 1) =>
          LET i == ReadChannel(nextchannel') \div 2
          IN  (\/ state.cvmode[i] = cvoff
               \/ (state.cvmode[i] # cvgatelength /\ obs'.candidate = CVquantized[i]))
                  => UNCHANGED <<state, rotatesemitonesCV, rotatedscale,
                                 transposesemitonesCV, offsetsemitonesCV,
                                 cvgatelengthindex, cvgatelengthremainder,
                                 gatelength>>]_vars

\* aux A was made the offset input of both channels while it rested six
\* semitones above its neutral point: its sample has been taken, found the
\* stored value and left the offset overlay at 0
AuxFiresOnChangeWitness ==
    /\ obs.kind = "cv" /\ obs.ch = 0 /\ ~obs.trig
    /\ obs.candidate = 69
    /\ state.cvmode[0] = cvoffset
    /\ offsetsemitonesCV[0] = 0


(***************************************************************************)
(* The two aux effects that take the quantized value modulo 12: aux input  *)
(* A rotates, aux input B recalls scale banks.  Bank 0 is empty, every     *)
(* other bank k holds the scale with position k alone enabled; the stored  *)
(* base rotation is 5.                                                     *)
(***************************************************************************)
InitAuxMod12 ==
    /\ Boot([DefaultState EXCEPT !.rotatesemitones = 5,
                                 !.cvmode = (0 :> cvrotate @@ 1 :> cvload)],
            [k \in 0..11 |-> IF k = 0 THEN 0 ELSE WordOfBits({k})], PinsHigh, 0)
    /\ q = QNone

\* aux A is at semitone 69 or 74 of its range; aux B is below its first
\* rounding step, at semitone 1 or at semitone 69
SpecAuxMod12 ==
    InitAuxMod12
        /\ [][ADCInterrupt([src \in 0..3 |-> IF src = 1 THEN {560, 600}
                                             ELSE IF src = 3 THEN {0, 16, 560}
                                             ELSE {0}])]_vars

\* C24: when the rotate effect or the scale recall effect has fired, its
\* mod12 lookup of the quantized value less 3 was inside the 64 entry table;
\* the rotate effect has set rotatesemitonesCV to (quantized - 3) mod 12,
\* and the scale recall effect has loaded bank (quantized - 3) mod 12.
AuxMod12InTable ==
    (obs.kind = "cv" /\ obs.trig /\ state.cvmode[obs.ch] \in {cvrotate, cvload}) =>
        /\ InTable(obs.candidate - 3)
        /\ state.cvmode[obs.ch] = cvrotate
               => rotatesemitonesCV = (obs.candidate - 3) % 12
        /\ state.cvmode[obs.ch] = cvload
               => /\ state.scale = eeScales[(obs.candidate - 3) % 12]
                  /\ state.rotatesemitones = 0


\* C25: for every sample processChannel can pass, each of the three
\* quantizers has returned a byte, and the mod12 lookup of note + 8 they all
\* make was inside the 64 entry table.
QuantizersTotal ==
    q.phase = "done" =>
        /\ q.nearest \in 0..255 /\ q.skip \in 0..255 /\ q.equal \in 0..255
        /\ Mod12Index(QNote(q.adc) + 8) \in 0..63


\* C26: after a sample v of an aux input in gate length mode the remainder
\* is in 0..39, the index and the remainder satisfy 40 * (index + 13) +
\* remainder = v + 8, the one number divided, v + 8, is not negative, and
\* gatelength is the value of updateGatelength() for them, whether or not
\* the quantized value of the sample differs from the stored one.
GatelengthMapping ==
    q.phase = "done" =>
        /\ q.adc + 8 >= 0
        /\ cvgatelengthremainder \in 0..39
        /\ 40 * (cvgatelengthindex + 13) + cvgatelengthremainder = q.adc + 8
        /\ gatelength = UpdateGatelengthValue(state.gatelengthindex,
                                              cvgatelengthindex,
                                              cvgatelengthremainder)

\* a sample whose quantized value is the stored one, 0: the configured
\* length of 144 samples has been replaced by the shortest
GatelengthMappingWitness ==
    /\ q.phase = "done"
    /\ q.adc = 8
    /\ CVCandidate(0, q.adc) = CVquantized[0]
    /\ state.gatelengthindex = 3
    /\ cvgatelengthindex = 0 - 13
    /\ cvgatelengthremainder = 16
    /\ gatelength = 5


\* C27: every ADC interrupt advances nextchannel by one modulo 4 and calls
\* the processor of input nextchannel XOR 2 (0: processChannel(0), 1:
\* processCV(0), 2: processChannel(1), 3: processCV(1)), and the value it
\* hands over is the conversion of that input, from the first interrupt on.
\* (The first two conversions are both of the input setupADC selected,
\* aux A.)
RoundRobinSampling ==
    [][nextchannel' # nextchannel =>
          LET readchannel == ReadChannel(nextchannel')
          IN  /\ nextchannel' = (nextchannel + 1) % 4
              /\ readchannel = Xor16(nextchannel', 2)
              /\ (obs'.kind = "cv") <=> (readchannel % 2 = 1)
              /\ obs'.ch = readchannel \div 2
              /\ convsrc = readchannel]_vars


\* C28: loadScale(index), called by the scale recall effect of aux input B:
\* with index in 0..11 it replaces state.scale by the stored bank (an empty
\* one included), sets state.rotatesemitones to 0 and recomputes
\* rotatedscale for the aux rotation in effect; with index >= 12 it leaves
\* the configuration and rotatedscale alone; in both cases the rest of the
\* configuration, the aux rotation, the overlays and the banks are unchanged.
\* The index is (quantized - 3) mod 12 where the lookup is inside the table
\* and any byte where it is not.
RecallBankFrame ==
    [][(/\ nextchannel' # nextchannel
        /\ ReadChannel(nextchannel') = 3
        /\ state.cvmode[1] = cvload
        /\ obs'.trig) =>
          /\ \E index \in 0..255 :
                 /\ InTable(obs'.candidate - 3) => index = (obs'.candidate - 3) % 12
                 /\ IF index < 12
                    THEN /\ state' = [state EXCEPT !.scale = eeScales[index],
                                                   !.rotatesemitones = 0]
                         /\ rotatedscale' = RotateScale(eeScales[index],
                                                        rotatesemitonesCV, NoUndef)
                    ELSE UNCHANGED <<state, rotatedscale>>
          /\ UNCHANGED <<rotatesemitonesCV, transposesemitonesCV,
                         offsetsemitonesCV, cvgatelengthindex,
                         cvgatelengthremainder, gatelength, eeScales>>]_vars

\* bank 6 has been recalled while the aux rotation is 11
RecallBankFrameWitness ==
    /\ obs.kind = "cv" /\ obs.ch = 1 /\ obs.trig
    /\ obs.candidate = 69
    /\ rotatesemitonesCV = 11
    /\ state.scale = WordOfBits({6})
    /\ state.rotatesemitones = 0
    /\ rotatedscale = WordOfBits({5})


\* C29: when the handler of note key k in normal mode has toggled its bit
\* and recomputed the rotation, rotatedscale differs from what it was in
\* position k alone and state.scale differs in exactly one of its twelve
\* positions.  (The handler reads the two rotations before it disables
\* interrupts; the sampling interrupt can change the aux rotation between
\* the reads and the toggle.)
ToggleFlipsPressedKey ==
    [][(hk.pc = "toggle_commit" /\ hk'.pc = "idle") =>
          /\ Xor16(rotatedscale', rotatedscale) = WordOfBits({hk.key})
          /\ \E j \in 0..11 : Xor16(state'.scale, state.scale) = WordOfBits({j})]_vars


(***************************************************************************)
(* Save menu, then load menu: the scale on display is saved to bank 2 and  *)
(* recalled.  The banks are empty at power-up, the stored base rotation is *)
(* 0 or 5, aux input A is a rotation input at semitone 69 (aux rotation    *)
(* 6) and loop() has nothing to save.                                      *)
(***************************************************************************)
InitBank ==
    /\ \E r \in {0, 5} :
           Boot([DefaultState EXCEPT !.rotatesemitones = r,
                                     !.cvmode = [@ EXCEPT ![0] = cvrotate]],
                EmptyBanks, PinsHigh, MaxKeys + 1)
    /\ q = QNone

SpecBank ==
    InitBank /\ [][\/ ADCInterrupt([src \in 0..3 |-> IF src = 1 THEN {560} ELSE {0}])
                   \/ KeyShiftMenu(KEY_SAVE)
                   \/ KeySaveRead(2) \/ KeySaveAcquire \/ KeySavePut
                   \/ KeyLoadMenu
                   \/ KeyLoadScale(2) \/ KeyLoadRotate \/ KeyLoadRead1 \/ KeyLoadRead2
                   \/ KeyLoadReadScale \/ KeyLoadCommit]_vars

\* C30: when the load menu has recalled a bank that the save menu wrote,
\* rotatedscale is the scale that was saved, the bank's content.  (saveScale
\* stores rotatedscale, in which the aux rotation is applied; loadScale
\* clears the base rotation only and updateRotation applies the aux
\* rotation again.)
BankRoundTrip ==
    [][(hk.pc = "load_commit" /\ hk'.pc = "idle" /\ eeScales[hk.key] # 0)
          => rotatedscale' = eeScales[hk.key]]_vars


(***************************************************************************)
(* Aux input A is a rotation input at semitone 69 (aux rotation 6) while   *)
(* the cvB menu reassigns aux input B.                                     *)
(***************************************************************************)
SpecOtherAux ==
    InitKeys /\ [][\/ ADCInterrupt([src \in 0..3 |-> IF src = 1 THEN {560} ELSE {0}])
                   \/ KeyShiftMenu(KEY_CVB)
                   \/ (\E k \in {cvtranspose, KEY_CVB} : KeyCVMode(k))]_vars

\* C31: when a cv menu has reassigned aux input i, what the other aux input
\* j contributes is as it was: the aux rotation and rotatedscale if j is a
\* rotation input, the transpose or offset overlays if j is a transpose or
\* offset input, the gate length index and remainder if j is a gate length
\* input.  (resetCVState(i) clears the one shared aux rotation.)
ReassignKeepsOther ==
    [][(obs'.kind = "cvmode" /\ hk'.left # hk.left) =>
          LET j == 1 - obs'.ch
              m == state.cvmode[j]
          IN  /\ m = cvrotate => UNCHANGED <<rotatesemitonesCV, rotatedscale>>
              /\ m \in {cvtranspose, cvtransposechannel}
                     => UNCHANGED transposesemitonesCV
              /\ m \in {cvoffset, cvoffsetchannel} => UNCHANGED offsetsemitonesCV
              /\ m = cvgatelength
                     => UNCHANGED <<cvgatelengthindex, cvgatelengthremainder>>]_vars


\* C32: for a rotated scale that is not empty, quantizeEqual does not
\* decrease from one sample to the next, over the samples 32..1000, where
\* neither the rounded semitone nor the result wraps.  (The octave position
\* is taken from the semitone rounded at sample + 4, its fraction from
\* sample mod 8, which falls from 7 to 0 in the middle of that semitone.)
EqualMonotone ==
    (q.phase = "done" /\ rotatedscale # 0 /\ q.adc \in 32..1000) =>
        q.equal <= quantizeEqual(q.adc + 1, rotatedscale, q.oob)

\* C33: the count of keyboard updates still owed stays in 0..2: two after a
\* key of the keyboard menu, one less for each update of an output, so that
\* an output is updated in the keyboard menu only after a key press.
KeyboardOnlyOnPress ==
    keyboardtriggered \in 0..2

(***************************************************************************)
(* The keys that edit the stored configuration without a menu of several   *)
(* steps: legato in the normal menu, and the trigger delay in its menu.    *)
(***************************************************************************)
SpecAutosave ==
    InitSave /\ [][\/ ADCInterrupt([src \in 0..3 |-> {0}])
                   \/ HKTick
                   \/ KeyLegato
                   \/ KeyShiftMenu(KEY_TRIGGERDELAY)
                   \/ (\E k \in {0, 3} : KeyTriggerDelay(k))
                   \/ KeyHome]_vars

\* C34: a key press that changes a field of the stored configuration restarts
\* the autosave countdown at autosavetime.
EditRestartsAutosave ==
    [][(hk'.left # hk.left /\ state' # state) => autosavecounter' = autosavetime]_vars

\* C35: in triggered mode an edge is accepted only when no trigger armed by
\* an earlier edge is still waiting (triggerdelay is 0, or 1 and so spent on
\* this very sample): an armed trigger is not armed again before it has fired
\* or was dropped, so that every accepted edge is answered once.
EdgeAnsweredOnce ==
    [][\A i \in 0..1 :
          (ChannelSampled(i) /\ mode # "keyboard" /\ ~freerunning[i] /\ obs'.edge)
              => triggerdelay[i] <= 1]_vars

=============================================================================
